---- MODULE Spec2Model ----
(***************************************************************************)
(* A model of the schema-driven Event / Particle construction engine of    *)
(* dtpr (dtpr/base/particle.py, event.py, event_list.py, ntuple.py).       *)
(*                                                                         *)
(* Python values are tagged records: IntV(i), StrV(s), ListV(l).  An       *)
(* object's __dict__ is a function from attribute names to values.  A call *)
(* that may raise returns Ok(v) or Raise(type, what).                      *)
(***************************************************************************)
EXTENDS Integers, Sequences, FiniteSets, TLC

\* ------------------------------------------------------------------------
\* Bounds of the model
\* ------------------------------------------------------------------------
MaxRecords == 3      \* longest record source
MaxIndex == 2        \* largest particle index built
MaxParticles == 2    \* longest particle list assigned to an event
MaxBuilt == 3        \* length of the column a particle type is built from
MaxRaising == 2      \* longest record source of the list whose preprocessors raise
MaxFiles == 3        \* entries of the scanned directory
MaxLines == 2        \* lines of a YAML file
MaxEvents == 5       \* records of the ntuple whose histograms are filled
MaxCores == 3        \* worker processes asked for
MaxSegments == 2     \* segments of an event in the matching machines
MaxTPs == 2          \* trigger primitives of an event

\* ------------------------------------------------------------------------
\* Python values and outcomes
\* ------------------------------------------------------------------------
None == "None"
IntV(i) == [t |-> "int", v |-> i]
StrV(s) == [t |-> "str", v |-> s]
ListV(l) == [t |-> "list", v |-> l]
MapV(l) == [t |-> "map", v |-> l]
\* a map object: an iterator over the values still to be produced
MapIterV(l) == [t |-> "map_iterator", v |-> l]
NoneV == [t |-> "none"]

Ok(v) == [ok |-> TRUE, val |-> v]
Raise(e, w) == [ok |-> FALSE, err |-> e, what |-> w]

\* Python truthiness of an optional string
Truthy(s) == s # None /\ s # ""

\* f with key k set to v (dict assignment keeps the other keys)
SetKey(f, k, v) == [x \in (DOMAIN f) \cup {k} |-> IF x = k THEN v ELSE f[x]]

\* `r = v` followed by F(r): the value of v is computed once and named
Bind(v, F(_)) == CHOOSE y \in {F(r) : r \in {v}} : TRUE

\* ------------------------------------------------------------------------
\* Expression strings.  compile() accepts an expression or raises
\* SyntaxError; eval() looks the names up in the given namespace.
\* ------------------------------------------------------------------------
\* attribute expressions, evaluated against the particle's __dict__
ExprSyntaxOk(e) == e \notin {"wh >", "p.wh >", "p.pt +"}
ExprRef(e) ==
    CASE e = "wh + 1" -> "wh"
      [] e = "st * 2" -> "st"
      [] e = "p.wh > 0" -> "wh"
      [] e = "p.st > 1" -> "st"
      [] e = "p.pt" -> "pt"
      [] e = "p.wh" -> "wh"
      [] OTHER -> "wh"
ExprApply(e, x) ==
    CASE e = "wh + 1" -> IntV(x + 1)
      [] e = "st * 2" -> IntV(x * 2)
      [] e = "p.wh > 0" -> IntV(IF x > 0 THEN 1 ELSE 0)
      [] e = "p.st > 1" -> IntV(IF x > 1 THEN 1 ELSE 0)
      [] OTHER -> IntV(x)

\* particle.py:82  eval(expr, {}, self.__dict__)
EvalAttrExpr(e, dict) ==
    IF ExprRef(e) \notin DOMAIN dict THEN Raise("NameError", ExprRef(e))
    ELSE IF dict[ExprRef(e)].t # "int" THEN Raise("TypeError", ExprRef(e))
    ELSE Ok(ExprApply(e, dict[ExprRef(e)].v))

\* event.py:178,200  eval with p bound to the particle: p.<attr>
EvalParticleExpr(e, p) ==
    IF ExprRef(e) \notin DOMAIN p THEN Raise("AttributeError", ExprRef(e))
    ELSE IF p[ExprRef(e)].t # "int" THEN Raise("TypeError", ExprRef(e))
    ELSE Ok(ExprApply(e, p[ExprRef(e)].v))

\* ------------------------------------------------------------------------
\* utils/functions.py get_callable_from_src: the importable callables
\* ------------------------------------------------------------------------
Callables == {"mod.twice_index", "mod.index_plus"}
get_callable_from_src(src) ==
    IF src \in Callables THEN Ok(src) ELSE Raise("AttributeError", src)

\* method(self), optionally partially applied with kwargs (an offset k)
CallMethod(m, kwargs, p) ==
    CASE m = "mod.twice_index" -> IntV(2 * p["index"].v)
      [] OTHER -> IntV(p["index"].v + (IF kwargs = None THEN 0 ELSE 10))

\* eval(_type): the builtins a `type` entry may name
TypeNames == {"bool", "abs"}
Coerce(ty, x) ==
    CASE ty = "bool" -> IF x = 0 THEN 0 ELSE 1
      [] OTHER -> IF x < 0 THEN 0 - x ELSE x

RECURSIVE CoerceSeq(_, _)
CoerceSeq(ty, l) ==
    IF l = <<>> THEN <<>>
    ELSE <<IntV(Coerce(ty, Head(l).v))>> \o CoerceSeq(ty, Tail(l))

RECURSIVE IntVSeq(_)
IntVSeq(l) == IF l = <<>> THEN <<>> ELSE <<IntV(Head(l))>> \o IntVSeq(Tail(l))

\* ------------------------------------------------------------------------
\* Particle._init_from_dict
\* ------------------------------------------------------------------------
\* getattr(event, branch, None) on a record: a column or None
HasColumn(ev, b) == b \in DOMAIN ev

\* a check that only asks for at least one of branch, expr, src
Provided_AtLeastOne(info) ==
    IF \E f \in {"branch", "expr", "src"} : info[f] # None THEN 1 ELSE 0

\* particle.py:52  provided = [x for x in [branch, expr, src] if x is not None]
Provided(info) ==
    Cardinality({f \in {"branch", "expr", "src"} : info[f] # None})

\* a branch value that takes a vector column whole, without indexing it
BranchValue_WholeColumn(p, info, ev) ==
    IF ~HasColumn(ev, info.branch) THEN Raise("ValueError", "branch_not_found")
    ELSE IF ev[info.branch].t = "int" THEN Ok(IntV(ev[info.branch].v))
    ELSE IF p["index"].v + 1 > Len(ev[info.branch].v) THEN Raise("IndexError", info.branch)
    ELSE IF ev[info.branch].t = "vector<vector<"
    THEN Ok(ListV(IntVSeq(ev[info.branch].v[p["index"].v + 1])))
    ELSE Ok(ListV(IntVSeq(ev[info.branch].v)))

\* particle.py:58-76  the value a branch gives the particle at p.index
BranchValue(p, info, ev) ==
    IF ~HasColumn(ev, info.branch) THEN Raise("ValueError", "branch_not_found")
    ELSE LET col == ev[info.branch]
             i == p["index"].v
         IN  IF col.t = "int" THEN Ok(IntV(col.v))
             ELSE IF i + 1 > Len(col.v) THEN Raise("IndexError", info.branch)
             ELSE IF col.t = "vector<vector<" THEN Ok(ListV(IntVSeq(col.v[i + 1])))
             ELSE Ok(IntV(col.v[i + 1]))

\* particle.py:78-91  the value an expr or a src gives
ExprOrSrcValue(p, info) ==
    IF Truthy(info.expr)
    THEN IF ~ExprSyntaxOk(info.expr) THEN Raise("ValueError", "invalid_expr")
         ELSE EvalAttrExpr(info.expr, p)
    ELSE LET m == get_callable_from_src(info.src)
         IN  IF ~m.ok THEN m ELSE Ok(CallMethod(m.val, info.kwargs, p))

\* particle.py:93-105  type coercion of a bound value
ApplyType(info, value) ==
    IF ~Truthy(info.type) THEN Ok(value)
    ELSE IF info.type \notin TypeNames THEN Raise("ValueError", "invalid_type")
    ELSE IF value.t # "list" THEN Ok(IntV(Coerce(info.type, value.v)))
    ELSE Ok(MapIterV(CoerceSeq(info.type, value.v)))

\* particle.py:38-108  returns Ok(particle with attr set) or the error raised
InitFromDict(p, attr, info, ev) ==
    IF Provided(info) # 1 THEN Raise("ValueError", "exactly_one")
    ELSE IF ~(Truthy(info.branch) \/ Truthy(info.expr) \/ Truthy(info.src))
    THEN \* `value` is unbound: line 96 raises a NameError subclass that line
         \* 100 turns into ValueError; without `type` line 108 raises
         IF Truthy(info.type) THEN Raise("ValueError", "invalid_type")
         ELSE Raise("UnboundLocalError", "value")
    ELSE Bind(IF Truthy(info.branch) THEN BranchValue(p, info, ev)
              ELSE ExprOrSrcValue(p, info),
              LAMBDA raw :
                  IF ~raw.ok THEN raw
                  ELSE Bind(ApplyType(info, raw.val),
                            LAMBDA typed : IF ~typed.ok THEN typed
                                           ELSE Ok(SetKey(p, attr, typed.val))))

\* ------------------------------------------------------------------------
\* Particle.__init__
\* ------------------------------------------------------------------------
\* an entry of **kwargs: a dict (attribute spec) or a plain value
DictAttr(a, info) == [attr |-> a, isdict |-> TRUE, info |-> info, value |-> NoneV]
ValueAttr(a, v) == [attr |-> a, isdict |-> FALSE, info |-> None, value |-> v]

\* particle.py:32-36  the kwargs in declared order, stopping at the first raise
RECURSIVE InitAttrs(_, _, _)
\* an __init__ that leaves out an attribute whose definition raises and
\* goes on with the next one
InitAttrs_SkipFailed(p, attrs, ev) ==
    IF attrs = <<>> THEN Ok(p)
    ELSE Bind(IF Head(attrs).isdict
              THEN InitFromDict(p, Head(attrs).attr, Head(attrs).info, ev)
              ELSE Ok(SetKey(p, Head(attrs).attr, Head(attrs).value)),
              LAMBDA r : IF ~r.ok THEN InitAttrs(p, Tail(attrs), ev)
                         ELSE InitAttrs(r.val, Tail(attrs), ev))

InitAttrs(p, attrs, ev) ==
    IF attrs = <<>> THEN Ok(p)
    ELSE Bind(IF Head(attrs).isdict
              THEN InitFromDict(p, Head(attrs).attr, Head(attrs).info, ev)
              ELSE Ok(SetKey(p, Head(attrs).attr, Head(attrs).value)),
              LAMBDA r : IF ~r.ok THEN r ELSE InitAttrs(r.val, Tail(attrs), ev))

\* particle.py:18-36  cls is the class name (self.__class__.__name__)
ParticleInit(cls, index, ev, attrs) ==
    InitAttrs([k \in {"index", "name"} |->
                  IF k = "index" THEN IntV(index) ELSE StrV(cls)], attrs, ev)

\* ------------------------------------------------------------------------
\* Particle.__eq__ and Particle.__hash__
\* ------------------------------------------------------------------------
\* Python == on two attribute values
ValEq(x, y) == x.t = y.t /\ x.v = y.v

\* particle.py:164-166  the __dict__ without 'index' and 'name'
Content(p) == [k \in (DOMAIN p) \ {"index", "name"} |-> p[k]]

\* particle.py:151-166  __eq__: equality of the two filtered dicts
ParticleEq(a, b) ==
    /\ DOMAIN Content(a) = DOMAIN Content(b)
    /\ \A k \in DOMAIN Content(a) : ValEq(Content(a)[k], Content(b)[k])

\* hash() of an attribute value: a list is unhashable
Hashable(x) == x.t # "list"

\* particle.py:168-179  __hash__: the hash of the frozenset of (key, value)
\* pairs, written as that frozenset (a hash without collisions); building the
\* frozenset raises TypeError on an unhashable value
ParticleHash(p) ==
    IF \E k \in DOMAIN Content(p) : ~Hashable(p[k])
    THEN Raise("TypeError", "unhashable type")
    ELSE Ok({<<k, Content(p)[k]>> : k \in DOMAIN Content(p)})

\* ------------------------------------------------------------------------
\* Event._build_particles
\* ------------------------------------------------------------------------
NoAmount == [t |-> "none"]
NoSorter == [t |-> "absent"]
Sorter(by, reverse) == [t |-> "sorter", by |-> by, reverse |-> reverse]

\* event.py:164  ptype.capitalize()[:-1]
CapitalizedSingular(ptype) ==
    CASE ptype = "digis" -> "Digi"
      [] ptype = "segments" -> "Segment"
      [] ptype = "genmuons" -> "Genmuon"
      [] OTHER -> "Shower"

\* the importable particle classes (subclasses of Particle)
ParticleClasses == {"dtpr.particles.Digi"}
ClassName(src) == IF src = None THEN "Particle" ELSE "Digi"

\* an amount that gives up on a column holding a sequence
NumParticles_NoLength(ev, pinfo) ==
    IF pinfo.amount.t = "none" THEN Raise("ValueError", "no_amount")
    ELSE IF pinfo.amount.t = "int" THEN Ok(pinfo.amount.v)
    ELSE IF ~HasColumn(ev, pinfo.amount.v) THEN Raise("ValueError", "amount_branch")
    ELSE IF ev[pinfo.amount.v].t = "int" THEN Ok(ev[pinfo.amount.v].v)
    ELSE Raise("RuntimeError", "amount_length")

\* event.py:124-144
NumParticles(ev, pinfo) ==
    LET a == pinfo.amount
    IN  IF a.t = "none" THEN Raise("ValueError", "no_amount")
        ELSE IF a.t = "int" THEN Ok(a.v)
        ELSE IF ~HasColumn(ev, a.v) THEN Raise("ValueError", "amount_branch")
        ELSE IF ev[a.v].t = "int" THEN Ok(ev[a.v].v)
        ELSE Ok(Len(ev[a.v].v))

\* event.py:147-152
ResolveClass(pinfo) ==
    IF pinfo.class = None THEN Ok(None)
    ELSE IF pinfo.class \in ParticleClasses THEN Ok(pinfo.class)
    ELSE Raise("AttributeError", pinfo.class)

\* event.py:166-181  Ok(TRUE) keeps the particle, Ok(FALSE) drops it
FilterParticle(p, pinfo) ==
    IF pinfo.filter = None THEN Ok(TRUE)
    ELSE IF ~ExprSyntaxOk(pinfo.filter) THEN Raise("ValueError", "invalid_filter")
    ELSE LET r == EvalParticleExpr(pinfo.filter, p)
         IN  IF ~r.ok THEN r ELSE Ok(r.val.v # 0)

\* event.py:162-164  a particle still named "Particle" is named after its type
NameParticle(p, ptype) ==
    IF p["name"] = StrV("Particle")
    THEN SetKey(p, "name", StrV(CapitalizedSingular(ptype)))
    ELSE p

\* event.py:156-181  the loop over range(num_particles)
RECURSIVE BuildLoop(_, _, _, _, _, _)
BuildLoop(i, num, acc, ev, ptype, pinfo) ==
    IF i >= num THEN Ok(acc)
    ELSE Bind(ParticleInit(ClassName(pinfo.class), i, ev, pinfo.attributes),
              LAMBDA made :
                  IF ~made.ok THEN made
                  ELSE Bind(FilterParticle(NameParticle(made.val, ptype), pinfo),
                            LAMBDA keep :
                                IF ~keep.ok THEN keep
                                ELSE BuildLoop(i + 1, num,
                                               IF keep.val
                                               THEN Append(acc, NameParticle(made.val, ptype))
                                               ELSE acc,
                                               ev, ptype, pinfo)))

\* sorted(): stable insertion by key, ascending or (reverse) descending
RECURSIVE InsertSorted(_, _, _, _)
InsertSorted(s, p, key, reverse) ==
    IF s = <<>> THEN <<p>>
    ELSE LET before == IF reverse THEN Head(s)[key].v >= p[key].v
                       ELSE Head(s)[key].v <= p[key].v
         IN  IF before THEN <<Head(s)>> \o InsertSorted(Tail(s), p, key, reverse)
             ELSE <<p>> \o s

RECURSIVE StableSort(_, _, _, _)
StableSort(done, todo, key, reverse) ==
    IF todo = <<>> THEN done
    ELSE StableSort(InsertSorted(done, Head(todo), key, reverse), Tail(todo), key, reverse)

\* a sorter whose reverse turns the ascending order around
SortParticles_Reversed(ps, pinfo) ==
    IF pinfo.sorter.t = "absent" THEN Ok(ps)
    ELSE IF pinfo.sorter.by = None THEN Raise("ValueError", "sorter_by")
    ELSE IF ~ExprSyntaxOk(pinfo.sorter.by) THEN Raise("ValueError", "invalid_sorter")
    ELSE IF \E k \in 1..Len(ps) : ExprRef(pinfo.sorter.by) \notin DOMAIN ps[k]
    THEN Raise("AttributeError", ExprRef(pinfo.sorter.by))
    ELSE IF ~pinfo.sorter.reverse
    THEN Ok(StableSort(<<>>, ps, ExprRef(pinfo.sorter.by), FALSE))
    ELSE Ok([i \in 1..Len(ps) |->
                StableSort(<<>>, ps, ExprRef(pinfo.sorter.by), FALSE)[Len(ps) + 1 - i]])

\* event.py:183-202
SortParticles(ps, pinfo) ==
    LET s == pinfo.sorter
    IN  IF s.t = "absent" THEN Ok(ps)
        ELSE IF s.by = None THEN Raise("ValueError", "sorter_by")
        ELSE IF ~ExprSyntaxOk(s.by) THEN Raise("ValueError", "invalid_sorter")
        ELSE IF \E k \in 1..Len(ps) : ExprRef(s.by) \notin DOMAIN ps[k]
             THEN Raise("AttributeError", ExprRef(s.by))
        ELSE Ok(StableSort(<<>>, ps, ExprRef(s.by), s.reverse))

\* event.py:112-204  Ok(the list handed to setattr) or the error raised
BuildParticles(ev, ptype, pinfo) ==
    Bind(NumParticles(ev, pinfo),
         LAMBDA n :
             IF ~n.ok THEN n
             ELSE Bind(ResolveClass(pinfo),
                       LAMBDA c :
                           IF ~c.ok THEN c
                           ELSE Bind(BuildLoop(0, n.val, <<>>, ev, ptype, pinfo),
                                     LAMBDA built :
                                         IF ~built.ok THEN built
                                         ELSE SortParticles(built.val, pinfo))))

\* ------------------------------------------------------------------------
\* Event
\* ------------------------------------------------------------------------
\* An Event is its plain attributes (__dict__ without _particles) and the
\* _particles map from type name to list of particles.
EmptyMap == [x \in {} |-> NoneV]
ParticleV(p) == [t |-> "particle", v |-> p]

RECURSIVE ParticleVSeq(_)
ParticleVSeq(l) ==
    IF l = <<>> THEN <<>> ELSE <<ParticleV(Head(l))>> \o ParticleVSeq(Tail(l))

RECURSIVE UnwrapSeq(_)
UnwrapSeq(l) == IF l = <<>> THEN <<>> ELSE <<Head(l).v>> \o UnwrapSeq(Tail(l))

\* event.py:70-86  Event.__setattr__
EventSetAttr(e, name, value) ==
    IF value.t = "particle"
    THEN [e EXCEPT !.particles = SetKey(e.particles, name, <<value.v>>)]
    ELSE IF value.t = "list" /\ \A k \in 1..Len(value.v) : value.v[k].t = "particle"
    THEN [e EXCEPT !.particles = SetKey(e.particles, name, UnwrapSeq(value.v))]
    ELSE [e EXCEPT !.dict = SetKey(e.dict, name, value)]

\* event.py:250-252  the union of the particles' __dict__ keys
ValidKeys(particles) == UNION {DOMAIN particles[k] : k \in 1..Len(particles)}

\* event.py:257-258  all(getattr(particle, key) == value ...): stops at the
\* first constraint that fails; getattr of a missing attribute raises
RECURSIVE Match(_, _)
Match(particle, kwargs) ==
    IF kwargs = <<>> THEN Ok(TRUE)
    ELSE IF Head(kwargs).key \notin DOMAIN particle
    THEN Raise("AttributeError", Head(kwargs).key)
    ELSE IF ~ValEq(particle[Head(kwargs).key], Head(kwargs).value) THEN Ok(FALSE)
    ELSE Match(particle, Tail(kwargs))

\* event.py:260  the list comprehension, in collection order
RECURSIVE MatchAll(_, _, _)
MatchAll(particles, kwargs, acc) ==
    IF particles = <<>> THEN Ok(acc)
    ELSE Bind(Match(Head(particles), kwargs),
              LAMBDA m :
                  IF ~m.ok THEN m
                  ELSE MatchAll(Tail(particles), kwargs,
                                IF m.val THEN Append(acc, Head(particles)) ELSE acc))

\* the outcome of a filter_particles call: what it returns or raises, and
\* whether it warned
Filtered(res, warned) == [res |-> res, warned |-> warned]

\* a filter that validates the keys before it looks at the collection size
filter_particles_KeysFirst(e, particle_type, kwargs) ==
    IF particle_type \notin DOMAIN e.particles THEN Filtered(Ok(<<>>), TRUE)
    ELSE IF \E k \in 1..Len(kwargs) :
                kwargs[k].key \notin ValidKeys(e.particles[particle_type])
    THEN Filtered(Raise("ValueError", "invalid_keys")
                      @@ [keys |-> ValidKeys(e.particles[particle_type])], FALSE)
    ELSE IF e.particles[particle_type] = <<>> THEN Filtered(Ok(<<>>), FALSE)
    ELSE Filtered(MatchAll(e.particles[particle_type], kwargs, <<>>), FALSE)

\* event.py:216-260  Event.filter_particles; kwargs in call order
filter_particles(e, particle_type, kwargs) ==
    IF particle_type \notin DOMAIN e.particles THEN Filtered(Ok(<<>>), TRUE)
    ELSE IF e.particles[particle_type] = <<>> THEN Filtered(Ok(<<>>), FALSE)
    ELSE IF \E k \in 1..Len(kwargs) :
                kwargs[k].key \notin ValidKeys(e.particles[particle_type])
    THEN Filtered(Raise("ValueError", "invalid_keys")
                      @@ [keys |-> ValidKeys(e.particles[particle_type])], FALSE)
    ELSE Filtered(MatchAll(e.particles[particle_type], kwargs, <<>>), FALSE)

\* event.py:50-51  the loop over particle_types; a raise leaves the loop with
\* the object as built so far (`partial`), which the caller never receives
RECURSIVE BuildTypes(_, _, _)
\* a loop that catches the error of a type and goes on with the next one
BuildTypes_SkipFailed(self, ev, types) ==
    IF types = <<>> THEN Ok(self)
    ELSE Bind(BuildParticles(ev, Head(types).ptype, Head(types).pinfo),
              LAMBDA r :
                  IF ~r.ok THEN BuildTypes(self, ev, Tail(types))
                  ELSE BuildTypes(EventSetAttr(self, Head(types).ptype,
                                               ListV(ParticleVSeq(r.val))),
                                  ev, Tail(types)))

BuildTypes(self, ev, types) ==
    IF types = <<>> THEN Ok(self)
    ELSE Bind(BuildParticles(ev, Head(types).ptype, Head(types).pinfo),
              LAMBDA r :
                  IF ~r.ok THEN r @@ [partial |-> self]
                  ELSE BuildTypes(EventSetAttr(self, Head(types).ptype,
                                               ListV(ParticleVSeq(r.val))),
                                  ev, Tail(types)))

\* event.py:31-55  Event.__init__; a record without columns stands for ev=None
EventInit(ev, index, use_config, config) ==
    LET number == IF HasColumn(ev, "event_eventNumber")
                  THEN ev["event_eventNumber"].v ELSE index
        self == [dict |-> [k \in {"index", "number"} |->
                              IF k = "index" THEN IntV(index) ELSE IntV(number)],
                 particles |-> EmptyMap]
    IN  IF use_config /\ config.has_particle_types
        THEN BuildTypes(self, ev, config.particle_types)
        ELSE Ok(self)

\* event.py:53  the warning branch of __init__
EventInitWarns(use_config, config) == ~(use_config /\ config.has_particle_types)

\* ------------------------------------------------------------------------
\* NTuple.event_processor and the pipeline callables
\* ------------------------------------------------------------------------
EventV(e) == [t |-> "event", v |-> e]

\* getattr(event, name, default) on plain attributes
GetOr(e, name, default) == IF name \in DOMAIN e.dict THEN e.dict[name].v ELSE default
NumOf(e, ptype) == IF ptype \in DOMAIN e.particles THEN Len(e.particles[ptype]) ELSE 0

\* preprocessors: callables that mutate the event in place
Preprocessors == {"count", "bump", "twice"}
RunPreprocessor(name, e) ==
    CASE name = "count" -> EventSetAttr(e, "acc", IntV(NumOf(e, "digis")))
      [] name = "bump" -> EventSetAttr(e, "acc", IntV(GetOr(e, "acc", 0) + 1))
      [] OTHER -> EventSetAttr(e, "acc", IntV(2 * GetOr(e, "acc", 1)))

\* selectors: predicates over the event
Selectors == {"has_digis", "acc_even", "no_filter"}
RunSelector(name, e) ==
    CASE name = "has_digis" -> NumOf(e, "digis") > 0
      [] name = "acc_even" -> GetOr(e, "acc", 0) % 2 = 0
      [] OTHER -> TRUE

PreCall(name) == [kind |-> "pre", name |-> name, ret |-> TRUE]
SelCall(name, ret) == [kind |-> "sel", name |-> name, ret |-> ret]

\* ntuple.py:81-91  _preprocess_event: every preprocessor, in list order
RECURSIVE PreprocessEvent(_, _, _)
PreprocessEvent(pres, e, log) ==
    IF pres = <<>> THEN [ev |-> e, log |-> log]
    ELSE PreprocessEvent(Tail(pres), RunPreprocessor(Head(pres), e),
                         Append(log, PreCall(Head(pres))))

\* ntuple.py:93-102  _select_event: all() stops at the first falsy selector
RECURSIVE SelectEvent(_, _, _)
SelectEvent(sels, e, log) ==
    IF sels = <<>> THEN [ret |-> TRUE, log |-> log]
    ELSE LET r == RunSelector(Head(sels), e)
         IN  IF ~r THEN [ret |-> FALSE, log |-> Append(log, SelCall(Head(sels), r))]
             ELSE SelectEvent(Tail(sels), e, Append(log, SelCall(Head(sels), r)))

\* ntuple.py:71  getattr(ev, '_passes_filter', True)
PassesFilter(e) ==
    IF "_passes_filter" \in DOMAIN e.dict THEN e.dict["_passes_filter"].v # 0
    ELSE IF "_passes_filter" \in DOMAIN e.particles
    THEN e.particles["_passes_filter"] # <<>>
    ELSE TRUE

\* a processor that evaluates the selectors before it runs the preprocessors
event_processor_SelectFirst(pl, e) ==
    Bind(SelectEvent(pl.sel, e, <<>>),
         LAMBDA sel :
             Bind(PreprocessEvent(pl.pre, e, sel.log),
                  LAMBDA pre : [val |-> IF sel.ret THEN EventV(pre.ev) ELSE NoneV,
                                log |-> pre.log]))

\* ntuple.py:61-79  the value of the slot and the calls made, in order
event_processor(pl, e) ==
    IF ~PassesFilter(e) THEN [val |-> NoneV, log |-> <<>>]
    ELSE Bind(IF pl.pre # <<>> THEN PreprocessEvent(pl.pre, e, <<>>)
              ELSE [ev |-> e, log |-> <<>>],
              LAMBDA pre :
                  Bind(IF pl.sel # <<>> THEN SelectEvent(pl.sel, pre.ev, pre.log)
                       ELSE [ret |-> TRUE, log |-> pre.log],
                       LAMBDA sel : [val |-> IF sel.ret THEN EventV(pre.ev) ELSE NoneV,
                                     log |-> sel.log]))

\* ------------------------------------------------------------------------
\* EventList
\* ------------------------------------------------------------------------
\* event_list.py:53,76,85  Event(ev, iev, use_config=True) then the processor;
\* an exception of the constructor propagates
BuildAndProcess(config, pl, ev, iev) ==
    Bind(EventInit(ev, iev, TRUE, config),
         LAMBDA made :
             IF ~made.ok THEN [res |-> Raise(made.err, made.what), log |-> <<>>]
             ELSE Bind(event_processor(pl, made.val),
                       LAMBDA r : [res |-> Ok(r.val), log |-> r.log]))

\* event_list.py:51-58  the scan `for iev, ev in enumerate(self._tree)`,
\* which starts a new pass over the chain at entry 0
RECURSIVE ScanTo(_, _, _, _, _)
ScanTo(tr, config, pl, iev, index) ==
    IF iev >= Len(tr)
    THEN [res |-> Raise("IndexError", "Event index out of range"), log |-> <<>>]
    ELSE IF iev = index
    THEN BuildAndProcess(config, pl, tr[iev + 1], iev)
    ELSE ScanTo(tr, config, pl, iev + 1, index)

Abs(i) == IF i < 0 THEN 0 - i ELSE i

\* event_list.py:45-58  __getitem__ with an int
GetItemInt(tr, config, pl, index) ==
    IF Abs(index) >= Len(tr)
    THEN [res |-> Raise("IndexError", "Event index out of range"), log |-> <<>>]
    ELSE ScanTo(tr, config, pl, 0, IF index < 0 THEN index + Len(tr) ELSE index)

\* slice.indices(length) of event_list.py:44; start/stop/step are IntV or NoneV
SliceIndices(sl, n) ==
    LET step == IF sl.step.t = "none" THEN 1 ELSE sl.step.v
        lower == IF step > 0 THEN 0 ELSE 0 - 1
        upper == IF step > 0 THEN n ELSE n - 1
        Adjust(x, dflt) ==
            IF x.t = "none" THEN dflt
            ELSE IF x.v < 0 THEN (IF x.v + n > lower THEN x.v + n ELSE lower)
            ELSE (IF x.v < upper THEN x.v ELSE upper)
    IN  [start |-> Adjust(sl.start, IF step < 0 THEN upper ELSE lower),
         stop |-> Adjust(sl.stop, IF step < 0 THEN lower ELSE upper),
         step |-> step]

\* range(start, stop, step) as the list of its elements
RECURSIVE Range(_, _, _)
Range(start, stop, step) ==
    IF (step > 0 /\ start >= stop) \/ (step < 0 /\ start <= stop) THEN <<>>
    ELSE <<start>> \o Range(start + step, stop, step)

\* a generator that walks the slice one index at a time whatever its step
SliceRange_UnitStep(sl, n) ==
    Bind(SliceIndices(sl, n),
         LAMBDA i : Range(i.start, i.stop, IF i.step < 0 THEN 0 - 1 ELSE 1))

\* event_list.py:44  the indices the generator expression will visit
SliceRange(sl, n) ==
    Bind(SliceIndices(sl, n), LAMBDA i : Range(i.start, i.stop, i.step))

\* event_list.py:74-78  get_by_number: the first record whose number matches
RECURSIVE ScanNumber(_, _, _, _, _)
ScanNumber(tr, config, pl, iev, number) ==
    IF iev >= Len(tr)
    THEN [res |-> Raise("ValueError", "No event found"), log |-> <<>>]
    ELSE IF HasColumn(tr[iev + 1], "event_eventNumber")
            /\ tr[iev + 1]["event_eventNumber"].v = number
    THEN BuildAndProcess(config, pl, tr[iev + 1], iev)
    ELSE ScanNumber(tr, config, pl, iev + 1, number)

\* event_list.py:80-86  __iter__: one step of the generator at position pos
IterStep(tr, config, pl, pos) == BuildAndProcess(config, pl, tr[pos + 1], pos)

\* event_list.py:80-86  list(events): the values of a full iteration, which a
\* raising step ends
RECURSIVE FullIteration(_, _, _, _)
FullIteration(tr, config, pl, pos) ==
    IF pos >= Len(tr) THEN <<>>
    ELSE Bind(IterStep(tr, config, pl, pos),
              LAMBDA r : IF ~r.res.ok THEN <<>>
                         ELSE <<r.res.val>> \o FullIteration(tr, config, pl, pos + 1))

\* ------------------------------------------------------------------------
\* The record source and the configuration of the EventList machine
\* ------------------------------------------------------------------------
IntCol(i) == [t |-> "int", v |-> i]
VecCol(l) == [t |-> "vector", v |-> l]
VecVecCol(l) == [t |-> "vector<vector<", v |-> l]

AttrInfo(branch, expr, src, kwargs, type) ==
    [branch |-> branch, expr |-> expr, src |-> src, kwargs |-> kwargs, type |-> type]
Branch(b) == AttrInfo(b, None, None, None, None)
PInfo(amount, class, attributes, filter, sorter) ==
    [amount |-> amount, class |-> class, attributes |-> attributes,
     filter |-> filter, sorter |-> sorter]
PType(ptype, pinfo) == [ptype |-> ptype, pinfo |-> pinfo]
Config(types) == [has_particle_types |-> TRUE, particle_types |-> types]

\* record k of the chain: its number and k % 3 (or (k+1) % 3) digis
RecordAt(k, variant) ==
    LET nd == (k + variant) % 3
    IN  [c \in {"event_eventNumber", "digi_nDigis", "digi_wheel"} |->
            CASE c = "event_eventNumber" -> IntCol(10 + k)
              [] c = "digi_nDigis" -> IntCol(nd)
              [] OTHER -> VecCol([j \in 1..nd |-> j - variant])]

Trees == {[k \in 1..n |-> RecordAt(k, v)] : n \in 0..MaxRecords, v \in {0, 1}}

ELConfig ==
    Config(<<PType("digis",
                   PInfo([t |-> "str", v |-> "digi_nDigis"], None,
                         <<DictAttr("wh", Branch("digi_wheel"))>>, None, NoSorter))>>)

Pipelines ==
    {[pre |-> <<>>, sel |-> <<>>],
     [pre |-> <<"count", "bump">>, sel |-> <<"has_digis", "acc_even">>],
     [pre |-> <<"bump", "twice", "bump">>, sel |-> <<"no_filter", "has_digis">>]}

Slice(a, b, c) == [start |-> a, stop |-> b, step |-> c]
SliceRequests ==
    {Slice(NoneV, NoneV, NoneV), Slice(IntV(1), NoneV, NoneV),
     Slice(NoneV, IntV(2), NoneV), Slice(IntV(0 - 2), NoneV, NoneV),
     Slice(NoneV, NoneV, IntV(2)), Slice(NoneV, NoneV, IntV(0 - 1)),
     Slice(IntV(5), IntV(0), IntV(0 - 2))}

\* ------------------------------------------------------------------------
\* State
\* ------------------------------------------------------------------------
VARIABLES
    tree,       \* EventList._tree: the chained records
    pipeline,   \* NTuple._preprocessors and NTuple._selectors
    it,         \* the generator of EventList.__iter__
    gen,        \* the generator of EventList[a:b:c]
    last,       \* outcome of the last call on the EventList
    p1,         \* a Particle (its __dict__)
    p2,         \* another Particle
    pres,       \* the last assignment made to p1 or p2
    ap,         \* a Particle whose attributes are being built
    ares,       \* outcome of the last _init_from_dict on ap
    bcfg,       \* the configuration events are built from
    brec,       \* the record events are built from
    bout,       \* outcome of the last Event(...) construction
    fev,        \* an Event whose particle lists are assigned by hand
    fout,       \* outcome of the last filter_particles on fev
    mheap,      \* the generator muons and segments of an event, by reference
    mout,       \* outcome of the last matching call
    tseg,       \* a Segment (its __dict__, with the matches list)
    ttps,       \* the trigger primitives of the event, by position
    tout,       \* outcome of the last match_offline_to_AM
    sev,        \* an Event with simhits, for filter_particles
    sgms,       \* ev.genmuons: the generator muons with their matched segments
    sout,       \* outcome of the last analyze_genmuon_showers
    cev,        \* the event whose showers are classified
    corder,     \* the iteration order of location sets in this process
    cout,       \* what the last histogram fill produced
    dheap,      \* the particles of the serialized event, by reference
    dev,        \* the event that is serialized
    dout,       \* what the last to_dict returned
    gev,        \* the event whose attributes are assigned and read
    gout,       \* the last assignment or read
    xtable,     \* the attribute table of a particle type, in declared order
    xout,       \* the particle last built from the table, or the error
    krec,       \* the record a particle type is built from
    kinfo,      \* the builder of the particle type
    kout,       \* the event built last, or the error
    rcfg,       \* the configuration the event list builds events from
    rtree,      \* the records of an event list whose preprocessors can raise
    rpipe,      \* the preprocessors and selectors of that event list
    rit,        \* the generator of its iteration
    rgen,       \* the generator of a slice of it
    rout,       \* outcome of the last call on it
    lpath,      \* the input path given to NTuple
    lscan,      \* the entries of the directory in the order os.scandir yields them
    lmax,       \* NTuple._maxfiles
    lchain,     \* the files added to NTuple.tree, in order
    ifiles,     \* the YAML files on disk: the lines of each
    istack,     \* the calls of _resolve_includes under way, innermost last
    ivisited,   \* the set `visited` shared by those calls
    iout,       \* what Config._load_config returned or raised
    hargs,      \* fill_histos arguments and the machine: records, maxevents, ncores, cpu_count()
    hjobs,      \* the chunks handed to the worker pool, by worker index
    hrun,       \* how far the run is and the record indices the sequential loop filled
    nheap,      \* the generator muons and segments of the analysed event, by reference
    ntps,       \* ev.tps, or None when the event has no such attribute
    npc,        \* where analyze_genmuon_matches is in its loops
    nlog        \* the matching calls it has made, in order

elvars == <<tree, pipeline, it, gen, last>>
pvars == <<p1, p2, pres>>
avars == <<ap, ares>>
bvars == <<bcfg, brec, bout>>
fvars == <<fev, fout>>
mvars == <<mheap, mout>>
tvars == <<tseg, ttps, tout>>
svars == <<sev, sgms, sout>>
cvars == <<cev, corder, cout>>
dvars == <<dheap, dev, dout>>
gvars == <<gev, gout>>
xvars == <<xtable, xout>>
kvars == <<krec, kinfo, kout>>
rvars == <<rcfg, rtree, rpipe, rit, rgen, rout>>
lvars == <<lpath, lscan, lmax, lchain>>
ivars == <<ifiles, istack, ivisited, iout>>
hvars == <<hargs, hjobs, hrun>>
nvars == <<nheap, ntps, npc, nlog>>
vars == <<tree, pipeline, it, gen, last, p1, p2, pres, ap, ares, bcfg, brec, bout,
          fev, fout,
          mheap, mout,
          tseg, ttps, tout,
          sev, sgms, sout,
          cev, corder, cout,
          dheap, dev, dout,
          gev, gout,
          xtable, xout,
          krec, kinfo, kout,
          rcfg, rtree, rpipe, rit, rgen, rout,
          lpath, lscan, lmax, lchain,
          ifiles, istack, ivisited, iout,
          hargs, hjobs, hrun,
          nheap, ntps, npc, nlog>>

\* the variables a machine does not use keep these values
IdleEL ==
    /\ tree = <<>>
    /\ pipeline = [pre |-> <<>>, sel |-> <<>>]
    /\ it = [status |-> "none"]
    /\ gen = [status |-> "none"]
    /\ last = [op |-> "none"]
IdleP == p1 = EmptyMap /\ p2 = EmptyMap /\ pres = [op |-> "none"]

IdleA == ap = EmptyMap /\ ares = [op |-> "none"]

IdleB == bcfg = Config(<<>>) /\ brec = EmptyMap /\ bout = [op |-> "none"]

IdleF == fev = [dict |-> EmptyMap, particles |-> EmptyMap] /\ fout = [op |-> "none"]

IdleM == mheap = EmptyMap /\ mout = [op |-> "none"]

IdleT == tseg = EmptyMap /\ ttps = <<>> /\ tout = [op |-> "none"]

IdleS == sev = [dict |-> EmptyMap, particles |-> EmptyMap] /\ sgms = [has |-> FALSE, list |-> <<>>] /\ sout = [op |-> "none"]

IdleC == cev = [dict |-> EmptyMap, particles |-> EmptyMap] /\ corder = <<>> /\ cout = [op |-> "none"]

IdleD == dheap = EmptyMap /\ dev = [dict |-> EmptyMap, particles |-> EmptyMap] /\ dout = [op |-> "none"]

IdleG == gev = [dict |-> EmptyMap, particles |-> EmptyMap] /\ gout = [op |-> "none"]

IdleX == xtable = <<>> /\ xout = [op |-> "none"]

IdleK == krec = EmptyMap /\ kinfo = NoneV /\ kout = [op |-> "none"]

IdleR == rcfg = Config(<<>>) /\ rtree = <<>> /\ rpipe = [pre |-> <<>>, sel |-> <<>>] /\ rit = [status |-> "none"] /\ rgen = [status |-> "none"] /\ rout = [op |-> "none"]

IdleL == lpath = "" /\ lscan = <<>> /\ lmax = 0 /\ lchain = [loaded |-> FALSE, files |-> <<>>, asked |-> 0]

IdleI == ifiles = EmptyMap /\ istack = <<>> /\ ivisited = {} /\ iout = [status |-> "none"]

IdleH == hargs = [n |-> 0, maxevents |-> 0, ncores |-> 0, cpus |-> 0] /\ hjobs = <<>> /\ hrun = [phase |-> "none", filled |-> {}]

IdleN == nheap = EmptyMap /\ ntps = <<>> /\ npc = [phase |-> "none"] /\ nlog = <<>>

notEL == <<pvars, avars, bvars, fvars, mvars, tvars, svars, cvars, dvars, gvars, xvars, kvars, rvars, lvars, ivars, hvars, nvars>>
notP == <<elvars, avars, bvars, fvars, mvars, tvars, svars, cvars, dvars, gvars, xvars, kvars, rvars, lvars, ivars, hvars, nvars>>
notA == <<elvars, pvars, bvars, fvars, mvars, tvars, svars, cvars, dvars, gvars, xvars, kvars, rvars, lvars, ivars, hvars, nvars>>
notB == <<elvars, pvars, avars, fvars, mvars, tvars, svars, cvars, dvars, gvars, xvars, kvars, rvars, lvars, ivars, hvars, nvars>>
notF == <<elvars, pvars, avars, bvars, mvars, tvars, svars, cvars, dvars, gvars, xvars, kvars, rvars, lvars, ivars, hvars, nvars>>
notM == <<elvars, pvars, avars, bvars, fvars, tvars, svars, cvars, dvars, gvars, xvars, kvars, rvars, lvars, ivars, hvars, nvars>>
notT == <<elvars, pvars, avars, bvars, fvars, mvars, svars, cvars, dvars, gvars, xvars, kvars, rvars, lvars, ivars, hvars, nvars>>
notS == <<elvars, pvars, avars, bvars, fvars, mvars, tvars, cvars, dvars, gvars, xvars, kvars, rvars, lvars, ivars, hvars, nvars>>
notC == <<elvars, pvars, avars, bvars, fvars, mvars, tvars, svars, dvars, gvars, xvars, kvars, rvars, lvars, ivars, hvars, nvars>>
notD == <<elvars, pvars, avars, bvars, fvars, mvars, tvars, svars, cvars, gvars, xvars, kvars, rvars, lvars, ivars, hvars, nvars>>
notG == <<elvars, pvars, avars, bvars, fvars, mvars, tvars, svars, cvars, dvars, xvars, kvars, rvars, lvars, ivars, hvars, nvars>>
notX == <<elvars, pvars, avars, bvars, fvars, mvars, tvars, svars, cvars, dvars, gvars, kvars, rvars, lvars, ivars, hvars, nvars>>
notK == <<elvars, pvars, avars, bvars, fvars, mvars, tvars, svars, cvars, dvars, gvars, xvars, rvars, lvars, ivars, hvars, nvars>>
notR == <<elvars, pvars, avars, bvars, fvars, mvars, tvars, svars, cvars, dvars, gvars, xvars, kvars, lvars, ivars, hvars, nvars>>
notL == <<elvars, pvars, avars, bvars, fvars, mvars, tvars, svars, cvars, dvars, gvars, xvars, kvars, rvars, ivars, hvars, nvars>>
notI == <<elvars, pvars, avars, bvars, fvars, mvars, tvars, svars, cvars, dvars, gvars, xvars, kvars, rvars, lvars, hvars, nvars>>
notH == <<elvars, pvars, avars, bvars, fvars, mvars, tvars, svars, cvars, dvars, gvars, xvars, kvars, rvars, lvars, ivars, nvars>>
notN == <<elvars, pvars, avars, bvars, fvars, mvars, tvars, svars, cvars, dvars, gvars, xvars, kvars, rvars, lvars, ivars, hvars>>

NoIter == [status |-> "none", pos |-> 0, out |-> <<>>]
NoGen == [status |-> "none", sl |-> Slice(NoneV, NoneV, NoneV), todo |-> <<>>,
          out |-> <<>>, built |-> 0]
Outcome(op, arg, res, log) == [op |-> op, arg |-> arg, res |-> res, log |-> log]

InitEL ==
    /\ tree \in Trees
    /\ pipeline \in Pipelines
    /\ it = NoIter
    /\ gen = NoGen
    /\ last = Outcome("none", 0, Ok(NoneV), <<>>)
    /\ IdleP /\ IdleA /\ IdleB /\ IdleF /\ IdleM /\ IdleT /\ IdleS /\ IdleC /\ IdleD /\ IdleG /\ IdleX /\ IdleK /\ IdleR /\ IdleL /\ IdleI /\ IdleH /\ IdleN

\* events[i]
GetItem(i) ==
    \E r \in {GetItemInt(tree, ELConfig, pipeline, i)} :
        /\ last' = Outcome("get", i, r.res, r.log)
        /\ UNCHANGED <<tree, pipeline, it, gen, notEL>>

\* events[a:b:c]: only the generator object is made
GetSlice(sl) ==
    /\ gen' = [status |-> "open", sl |-> sl, todo |-> SliceRange(sl, Len(tree)),
               out |-> <<>>, built |-> 0]
    /\ last' = Outcome("slice", 0, Ok(NoneV), <<>>)
    /\ UNCHANGED <<tree, pipeline, it, notEL>>

\* next() on the slice generator
SliceNext ==
    /\ gen.status # "none"
    /\ IF gen.status = "done" \/ gen.todo = <<>>
       THEN /\ gen' = [gen EXCEPT !.status = "done"]
            /\ last' = Outcome("slice_next", 0, Raise("StopIteration", ""), <<>>)
       ELSE \E r \in {GetItemInt(tree, ELConfig, pipeline, Head(gen.todo))} :
                /\ gen' = [gen EXCEPT !.todo = Tail(gen.todo),
                                      !.built = gen.built + 1,
                                      !.out = IF r.res.ok THEN Append(gen.out, r.res.val)
                                              ELSE gen.out,
                                      !.status = IF r.res.ok THEN "open" ELSE "done"]
                /\ last' = Outcome("slice_next", Head(gen.todo), r.res, r.log)
    /\ UNCHANGED <<tree, pipeline, it, notEL>>

\* iter(events)
IterStart ==
    /\ it' = [status |-> "open", pos |-> 0, out |-> <<>>]
    /\ last' = Outcome("iter", 0, Ok(NoneV), <<>>)
    /\ UNCHANGED <<tree, pipeline, gen, notEL>>

\* next() on the iteration
IterNext ==
    /\ it.status # "none"
    /\ IF it.status = "done" \/ it.pos >= Len(tree)
       THEN /\ it' = [it EXCEPT !.status = "done"]
            /\ last' = Outcome("iter_next", 0, Raise("StopIteration", ""), <<>>)
       ELSE \E r \in {IterStep(tree, ELConfig, pipeline, it.pos)} :
                /\ it' = [it EXCEPT !.pos = it.pos + 1,
                                    !.out = IF r.res.ok THEN Append(it.out, r.res.val)
                                            ELSE it.out,
                                    !.status = IF r.res.ok THEN "open" ELSE "done"]
                /\ last' = Outcome("iter_next", it.pos, r.res, r.log)
    /\ UNCHANGED <<tree, pipeline, gen, notEL>>

\* events.get_by_number(number)
GetByNumber(number) ==
    \E r \in {ScanNumber(tree, ELConfig, pipeline, 0, number)} :
        /\ last' = Outcome("get_by_number", number, r.res, r.log)
        /\ UNCHANGED <<tree, pipeline, it, gen, notEL>>

NextEL ==
    \/ \E i \in (0 - MaxRecords - 1)..MaxRecords : GetItem(i)
    \/ \E sl \in SliceRequests : GetSlice(sl)
    \/ SliceNext
    \/ IterStart
    \/ IterNext
    \/ \E number \in {11, 10 + MaxRecords, 11 + MaxRecords} : GetByNumber(number)

SpecEL == InitEL /\ [][NextEL]_vars

\* ------------------------------------------------------------------------
\* Two particles and the assignments made to them
\* ------------------------------------------------------------------------
NoRecord == EmptyMap

\* the attribute values an assignment may give
AttrValues(key) ==
    CASE key = "index" -> {IntV(0), IntV(1)}
      [] key = "name" -> {StrV("Digi"), StrV("Shower")}
      [] key = "hits" -> {ListV(<<IntV(1)>>), ListV(<<>>)}
      [] OTHER -> {IntV(1), IntV(2)}

InitP ==
    /\ \E i \in {0, 1}, w \in AttrValues("wh") :
           p1 = ParticleInit("Particle", i, NoRecord, <<ValueAttr("wh", w)>>).val
    /\ \E j \in {0, 1}, w \in AttrValues("wh") :
           p2 = ParticleInit("Particle", j, NoRecord, <<ValueAttr("wh", w)>>).val
    /\ pres = [op |-> "none"]
    /\ IdleEL /\ IdleA /\ IdleB /\ IdleF /\ IdleM /\ IdleT /\ IdleS /\ IdleC /\ IdleD /\ IdleG /\ IdleX /\ IdleK /\ IdleR /\ IdleL /\ IdleI /\ IdleH /\ IdleN

\* the record of an assignment: what was set, whether the particles were equal
\* before it and whether it changed the attribute
Assigned(who, key, old, value) ==
    [op |-> "set", who |-> who, key |-> key, eqBefore |-> ParticleEq(p1, p2),
     changed |-> (key \notin DOMAIN old \/ ~ValEq(old[key], value))]

\* setattr(p1, key, value)
SetAttr1(key, value) ==
    /\ p1' = SetKey(p1, key, value)
    /\ pres' = Assigned(1, key, p1, value)
    /\ UNCHANGED <<p2, notP>>

\* setattr(p2, key, value)
SetAttr2(key, value) ==
    /\ p2' = SetKey(p2, key, value)
    /\ pres' = Assigned(2, key, p2, value)
    /\ UNCHANGED <<p1, notP>>

NextP ==
    \/ \E key \in {"wh", "hits", "index", "name"} :
           \E value \in AttrValues(key) : SetAttr1(key, value)
    \/ \E key \in {"wh", "hits", "index", "name"} :
           \E value \in AttrValues(key) : SetAttr2(key, value)

SpecP == InitP /\ [][NextP]_vars

\* ------------------------------------------------------------------------
\* One particle built attribute by attribute
\* ------------------------------------------------------------------------
\* a record with a vector, a vector of vectors and a scalar column
ARecord ==
    [c \in {"digi_wheel", "digi_time", "event_n"} |->
        CASE c = "digi_wheel" -> VecCol(<<0 - 1, 2>>)
          [] c = "digi_time" -> VecVecCol(<<<<1, 2>>, <<>>>>)
          [] OTHER -> IntCol(7)]

\* the attribute specs of a configuration: any combination of the three
\* sources, with or without a type
AttrInfos ==
    {AttrInfo(b, e, src, None, ty) :
        b \in {None, "", "digi_wheel", "digi_time", "event_n", "nosuch"},
        e \in {None, "wh + 1", "wh >"},
        src \in {None, "mod.twice_index", "mod.nosuch"},
        ty \in {None, "bool"}}
    \cup {AttrInfo(None, None, "mod.index_plus", "k", None),
          AttrInfo(None, None, "mod.index_plus", None, "nosuch")}

InitA ==
    /\ \E i \in 0..MaxIndex : ap = ParticleInit("Particle", i, ARecord, <<>>).val
    /\ ares = [op |-> "none"]
    /\ IdleEL /\ IdleP /\ IdleB /\ IdleF /\ IdleM /\ IdleT /\ IdleS /\ IdleC /\ IdleD /\ IdleG /\ IdleX /\ IdleK /\ IdleR /\ IdleL /\ IdleI /\ IdleH /\ IdleN

\* Particle(index=i, wh=w): a new particle with one plain attribute
NewParticle(i, w) ==
    /\ ap' = ParticleInit("Particle", i, ARecord, <<ValueAttr("wh", IntV(w))>>).val
    /\ ares' = [op |-> "none"]
    /\ UNCHANGED notA

\* self._init_from_dict(attr, info, event): a raise leaves the particle as it was
InitAttribute(attr, info) ==
    \E r \in {InitFromDict(ap, attr, info, ARecord)} :
        /\ ap' = IF r.ok THEN r.val ELSE ap
        /\ ares' = [op |-> "init", attr |-> attr, info |-> info, before |-> ap,
                    res |-> IF r.ok THEN Ok(NoneV) ELSE r]
        /\ UNCHANGED notA

\* list(p.<attr>) on a sequence-valued attribute: a list gives its elements,
\* a map object gives the elements it has not produced yet and is exhausted
ReadList(attr) ==
    /\ attr \in DOMAIN ap
    /\ ap[attr].t \in {"list", "map_iterator"}
    /\ ap' = IF ap[attr].t = "map_iterator"
              THEN [ap EXCEPT ![attr] = MapIterV(<<>>)] ELSE ap
    /\ ares' = [op |-> "read", attr |-> attr, val |-> ap[attr].v,
                again |-> ares.op = "read",
                first |-> IF ares.op = "read" THEN ares.val ELSE <<>>]
    /\ UNCHANGED notA

NextA ==
    \/ \E i \in 0..MaxIndex, w \in {0, 1} : NewParticle(i, w)
    \/ \E info \in AttrInfos : InitAttribute("x", info)
    \/ ReadList("x")

SpecA == InitA /\ [][NextA]_vars

\* ------------------------------------------------------------------------
\* Events built from a configuration
\* ------------------------------------------------------------------------
\* a configuration without a particle_types attribute
NoTypesConfig == [has_particle_types |-> FALSE, particle_types |-> <<>>]

DigiAmount == [t |-> "str", v |-> "digi_nDigis"]
WheelAttr == DictAttr("wh", Branch("digi_wheel"))

\* builders of "digis": well formed ones, and ones with an attribute spec
\* naming no or two sources, a malformed expression, filter or sorter, a
\* missing column, a missing amount or an unknown class
DigiInfos ==
    {PInfo(DigiAmount, None, <<WheelAttr>>, None, NoSorter),
     PInfo(DigiAmount, "dtpr.particles.Digi", <<WheelAttr>>, "p.wh > 0",
           Sorter("p.wh", TRUE)),
     PInfo(DigiAmount, None,
           <<WheelAttr, DictAttr("x", AttrInfo(None, None, None, None, None))>>,
           None, NoSorter),
     PInfo(DigiAmount, None,
           <<WheelAttr, DictAttr("x", AttrInfo("digi_wheel", "wh + 1", None, None, None))>>,
           None, NoSorter),
     PInfo(DigiAmount, None,
           <<WheelAttr, DictAttr("x", AttrInfo(None, "wh >", None, None, None))>>,
           None, NoSorter),
     PInfo(DigiAmount, None, <<WheelAttr>>, "p.wh >", NoSorter),
     PInfo(DigiAmount, None, <<WheelAttr>>, None, Sorter("p.wh >", FALSE)),
     PInfo(DigiAmount, None, <<DictAttr("wh", Branch("nosuch"))>>, None, NoSorter),
     PInfo(NoAmount, None, <<WheelAttr>>, None, NoSorter),
     PInfo(DigiAmount, "dtpr.particles.Nosuch", <<WheelAttr>>, None, NoSorter)}

\* builders of "segments": a fixed amount, a column the record lacks, a
\* malformed filter
SegmentInfos ==
    {PInfo(IntV(1), None,
           <<DictAttr("st", AttrInfo(None, None, "mod.twice_index", None, None))>>,
           None, NoSorter),
     PInfo([t |-> "str", v |-> "seg_nSegments"], None, <<>>, None, NoSorter),
     PInfo(IntV(1), None, <<>>, "p.st >", NoSorter)}

BuildConfigs ==
    {NoTypesConfig}
    \cup {Config(<<PType("digis", d)>>) : d \in DigiInfos}
    \cup {Config(<<PType("digis", d), PType("segments", g)>>) :
              d \in DigiInfos, g \in SegmentInfos}
    \cup {Config(<<PType("segments", g), PType("digis", d)>>) :
              d \in DigiInfos, g \in SegmentInfos}

BuildRecords == {RecordAt(k, v) : k \in 1..MaxRecords, v \in {0, 1}}

InitB ==
    /\ bcfg \in BuildConfigs
    /\ brec \in BuildRecords
    /\ bout = [op |-> "none"]
    /\ IdleEL /\ IdleP /\ IdleA /\ IdleF /\ IdleM /\ IdleT /\ IdleS /\ IdleC /\ IdleD /\ IdleG /\ IdleX /\ IdleK /\ IdleR /\ IdleL /\ IdleI /\ IdleH /\ IdleN

\* another configuration is loaded
Configure(config) ==
    /\ bcfg' = config
    /\ bout' = [op |-> "none"]
    /\ UNCHANGED <<brec, notB>>

\* the next record of the tree is read
ReadRecord(ev) ==
    /\ brec' = ev
    /\ bout' = [op |-> "none"]
    /\ UNCHANGED <<bcfg, notB>>

\* e = Event(ev, index, use_config, CONFIG): the caller holds the event only
\* when the constructor returns; `partial` is the object a raise abandons
NewEvent(index, use_config) ==
    \E r \in {EventInit(brec, index, use_config, bcfg)} :
        /\ bout' = [op |-> "event", use_config |-> use_config,
                    raised |-> ~r.ok,
                    held |-> IF r.ok THEN <<r.val>> ELSE <<>>,
                    partial |-> IF r.ok THEN <<>> ELSE <<r.partial>>,
                    warned |-> EventInitWarns(use_config, bcfg)]
        /\ UNCHANGED <<bcfg, brec, notB>>

NextB ==
    \/ \E config \in BuildConfigs : Configure(config)
    \/ \E ev \in BuildRecords : ReadRecord(ev)
    \/ \E index \in {0, 1}, use_config \in BOOLEAN : NewEvent(index, use_config)

SpecB == InitB /\ [][NextB]_vars

\* ------------------------------------------------------------------------
\* An event whose particle lists are assigned and filtered
\* ------------------------------------------------------------------------
\* the attribute sets a hand-made particle may carry besides index and name
ExtraAttrs ==
    {<<ValueAttr("wh", IntV(0))>>, <<ValueAttr("wh", IntV(1))>>,
     <<ValueAttr("wh", IntV(1)), ValueAttr("sc", IntV(2))>>,
     <<ValueAttr("sc", IntV(2))>>}

\* [Particle(index=0, ...), Particle(index=1, ...), ...]
ParticleLists ==
    UNION {{[i \in 1..n |-> ParticleInit("Particle", i - 1, NoRecord, c[i]).val] :
               c \in [1..n -> ExtraAttrs]} : n \in 0..MaxParticles}

KwArg(key, value) == [key |-> key, value |-> value]
FilterRequests ==
    {<<>>, <<KwArg("wh", IntV(1))>>, <<KwArg("sc", IntV(2))>>,
     <<KwArg("wh", IntV(1)), KwArg("sc", IntV(2))>>,
     <<KwArg("sc", IntV(2)), KwArg("wh", IntV(1))>>,
     <<KwArg("bx", IntV(0))>>, <<KwArg("wh", IntV(1)), KwArg("bx", IntV(0))>>,
     <<KwArg("index", IntV(0))>>,
     <<KwArg("wh", IntV(1)), KwArg("name", StrV("Particle"))>>}

\* Event(index=0)
InitF ==
    /\ fev = EventInit(NoRecord, 0, FALSE, NoTypesConfig).val
    /\ fout = [op |-> "none"]
    /\ IdleEL /\ IdleP /\ IdleA /\ IdleB /\ IdleM /\ IdleT /\ IdleS /\ IdleC /\ IdleD /\ IdleG /\ IdleX /\ IdleK /\ IdleR /\ IdleL /\ IdleI /\ IdleH /\ IdleN

\* event.<ptype> = particles
SetParticles(ptype, particles) ==
    /\ fev' = EventSetAttr(fev, ptype, ListV(ParticleVSeq(particles)))
    /\ fout' = [op |-> "none"]
    /\ UNCHANGED notF

\* event.filter_particles(ptype, **kwargs)
FilterCall(ptype, kwargs) ==
    \E r \in {filter_particles(fev, ptype, kwargs)} :
        /\ fout' = [op |-> "filter", ptype |-> ptype, kwargs |-> kwargs,
                    res |-> r.res, warned |-> r.warned]
        /\ UNCHANGED <<fev, notF>>

NextF ==
    \/ \E particles \in ParticleLists : SetParticles("digis", particles)
    \/ \E particles \in {l \in ParticleLists : Len(l) <= 1} :
           SetParticles("segments", particles)
    \/ \E ptype \in {"digis", "segments", "showers"}, kwargs \in FilterRequests :
           FilterCall(ptype, kwargs)

SpecF == InitF /\ [][NextF]_vars

\* ------------------------------------------------------------------------
\* Generator muon - segment matching (utils/genmuon_functions.py)
\* ------------------------------------------------------------------------
\* Particles refer to each other, so the particles of an event live in a
\* heap: a function from references to __dict__s.  A matched list is a value
\* of type "refs".  Angles and pseudorapidities are in thousandths.
Ref(kind, i) == [kind |-> kind, i |-> i]
RefsV(l) == [t |-> "refs", v |-> l]

TwoPi == 6283
\* genmuon_functions.py:28  abs(math.acos(math.cos(a - b)))
WrapPhi(d) ==
    LET m == (IF d < 0 THEN 0 - d ELSE d) % TwoPi
    IN  IF m > TwoPi - m THEN TwoPi - m ELSE m

\* the matched-list attributes, in the order they are compared
RefAttrs == <<"matched_segments", "matched_genmuons">>

\* Python == : Particle.__eq__ (particle.py:151-166) on two distinct objects
\* of heap H, and list == on two matched lists from position i.  The result
\* is "True", "False", or "RecursionError" when the comparison comes back to
\* a pair it is already comparing.
RECURSIVE HeapEq(_, _, _, _)
RECURSIVE RefsEq(_, _, _, _, _)
RECURSIVE RefAttrsEq(_, _, _, _, _)
HeapEq(H, a, b, stack) ==
    IF <<a, b>> \in stack THEN "RecursionError"
    ELSE IF DOMAIN H[a] \ {"index", "name"} # DOMAIN H[b] \ {"index", "name"}
    THEN "False"
    ELSE IF \E k \in DOMAIN H[a] \ {"index", "name"} :
                H[a][k].t # "refs" /\ ~ValEq(H[a][k], H[b][k])
    THEN "False"
    ELSE RefAttrsEq(H, a, b, 1, stack \cup {<<a, b>>})

RefAttrsEq(H, a, b, n, stack) ==
    IF n > Len(RefAttrs) THEN "True"
    ELSE IF RefAttrs[n] \notin DOMAIN H[a] THEN RefAttrsEq(H, a, b, n + 1, stack)
    ELSE IF H[b][RefAttrs[n]].t # "refs"
              \/ Len(H[a][RefAttrs[n]].v) # Len(H[b][RefAttrs[n]].v)
    THEN "False"
    ELSE Bind(RefsEq(H, H[a][RefAttrs[n]].v, H[b][RefAttrs[n]].v, 1, stack),
              LAMBDA r : IF r = "True" THEN RefAttrsEq(H, a, b, n + 1, stack) ELSE r)

RefsEq(H, la, lb, i, stack) ==
    IF i > Len(la) THEN "True"
    ELSE IF la[i] = lb[i] THEN RefsEq(H, la, lb, i + 1, stack)
    ELSE Bind(HeapEq(H, la[i], lb[i], stack),
              LAMBDA r : IF r = "True" THEN RefsEq(H, la, lb, i + 1, stack) ELSE r)

\* `item in l`: identity first, then ==, element by element
RECURSIVE Contains(_, _, _, _)
Contains(H, l, item, i) ==
    IF i > Len(l) THEN "False"
    ELSE IF l[i] = item THEN "True"
    ELSE Bind(HeapEq(H, l[i], item, {}),
              LAMBDA r : IF r = "False" THEN Contains(H, l, item, i + 1) ELSE r)

\* the outcome of an operation on the heap: the heap it leaves and the error
\* it raised, if any
HeapOk(H) == [ok |-> TRUE, heap |-> H]
HeapRaise(H, e) == [ok |-> FALSE, heap |-> H, err |-> e]

\* functions.py:249-250  setattr(obj, matched_list_name, []) if missing
WithList(H, obj, name) ==
    IF name \in DOMAIN H[obj] THEN H
    ELSE [H EXCEPT ![obj] = SetKey(H[obj], name, RefsV(<<>>))]

\* functions.py:238-252  append_to_matched_list
append_to_matched_list(H, obj, name, item) ==
    Bind(Contains(WithList(H, obj, name), WithList(H, obj, name)[obj][name].v, item, 1),
         LAMBDA c :
             IF c = "True" THEN HeapOk(WithList(H, obj, name))
             ELSE IF c = "False"
             THEN HeapOk([WithList(H, obj, name) EXCEPT ![obj][name].v = Append(@, item)])
             ELSE HeapRaise(WithList(H, obj, name), c))

MinHits == 4
MB4 == 4
\* a match that asks for z hits in every station
Matches_NoWaiver(g, s, max_dPhi, max_dEta) ==
    /\ WrapPhi(g["phi"].v - s["phi"].v) < max_dPhi
    /\ (IF g["eta"].v < s["eta"].v THEN s["eta"].v - g["eta"].v
        ELSE g["eta"].v - s["eta"].v) < max_dEta
    /\ s["nHits_phi"].v >= MinHits
    /\ s["nHits_z"].v >= MinHits

\* genmuon_functions.py:26-35  the match condition on two __dict__s
Matches(g, s, max_dPhi, max_dEta) ==
    /\ WrapPhi(g["phi"].v - s["phi"].v) < max_dPhi
    /\ (IF g["eta"].v < s["eta"].v THEN s["eta"].v - g["eta"].v
        ELSE g["eta"].v - s["eta"].v) < max_dEta
    /\ s["nHits_phi"].v >= MinHits
    /\ (s["nHits_z"].v >= MinHits \/ s["st"].v = MB4)

\* genmuon_functions.py:9-38
match_genmuon_offline_segment(H, gm, seg, max_dPhi, max_dEta) ==
    IF ~({"phi", "eta"} \subseteq DOMAIN H[gm]) THEN HeapRaise(H, "AttributeError")
    ELSE IF ~({"phi", "eta", "st", "nHits_phi", "nHits_z"} \subseteq DOMAIN H[seg])
    THEN HeapRaise(H, "AttributeError")
    ELSE IF ~Matches(H[gm], H[seg], max_dPhi, max_dEta) THEN HeapOk(H)
    ELSE Bind(append_to_matched_list(H, gm, "matched_segments", seg),
              LAMBDA r : IF ~r.ok THEN r
                         ELSE append_to_matched_list(r.heap, seg, "matched_genmuons", gm))

MaxDPhi == 100
MaxDEta == 300
\* genmuon_functions.py:60-62  for seg in ev.segments: match(gm, seg, 0.1, 0.3)
RECURSIVE MatchSegments(_, _, _)
MatchSegments(H, gm, segments) ==
    IF segments = <<>> THEN HeapOk(H)
    ELSE Bind(match_genmuon_offline_segment(H, gm, Head(segments), MaxDPhi, MaxDEta),
              LAMBDA r : IF ~r.ok THEN r ELSE MatchSegments(r.heap, gm, Tail(segments)))

GenMuonRefs == {Ref("genmuon", 1), Ref("genmuon", 2)}
SegmentRefs == {Ref("segment", i) : i \in 1..MaxSegments}
\* ev.segments, in collection order
SegmentList == [i \in 1..MaxSegments |-> Ref("segment", i)]

Attrs(keys, values) ==
    [k \in {keys[i] : i \in 1..Len(keys)} |->
        IntV(values[CHOOSE i \in 1..Len(keys) : keys[i] = k])]

\* generator muons: phi, eta
GenMuonKinds ==
    {Attrs(<<"phi", "eta">>, v) : v \in {<<50, 100>>, <<0 - 3100, 100>>}}

\* segments: phi, eta, nHits_phi, nHits_z, st; the last kind has no nHits_z
SegmentKinds ==
    {Attrs(<<"phi", "eta", "nHits_phi", "nHits_z", "st">>, v) :
        v \in {<<60, 120, 5, 5, 2>>, <<60, 120, 5, 2, 2>>, <<60, 120, 5, 2, 4>>,
               <<3150, 120, 5, 5, 2>>, <<60, 450, 5, 5, 2>>, <<60, 120, 3, 5, 2>>}}
    \cup {Attrs(<<"phi", "eta", "nHits_phi", "st">>, <<60, 120, 5, 2>>)}

\* the heap of an event whose particles have the given attributes
NewHeap(gms, segs) ==
    [r \in GenMuonRefs \cup SegmentRefs |->
        IF r.kind = "genmuon"
        THEN gms[r.i] @@ [index |-> IntV(r.i - 1), name |-> StrV("Genmuon")]
        ELSE segs[r.i] @@ [index |-> IntV(r.i - 1), name |-> StrV("Segment")]]

InitM ==
    /\ \E gms \in [1..2 -> GenMuonKinds], segs \in [1..MaxSegments -> SegmentKinds] :
           mheap = NewHeap(gms, segs)
    /\ mout = [op |-> "none"]
    /\ IdleEL /\ IdleP /\ IdleA /\ IdleB /\ IdleF /\ IdleT /\ IdleS /\ IdleC /\ IdleD /\ IdleG /\ IdleX /\ IdleK /\ IdleR /\ IdleL /\ IdleI /\ IdleH /\ IdleN

\* one turn of the loop over ev.genmuons: gm against every segment
MatchGenMuon(gm) ==
    \E r \in {MatchSegments(mheap, gm, SegmentList)} :
        /\ mheap' = r.heap
        /\ mout' = [op |-> "match", gm |-> gm, raised |-> ~r.ok]
        /\ UNCHANGED notM

NextM == \E gm \in GenMuonRefs : MatchGenMuon(gm)

SpecM == InitM /\ [][NextM]_vars

\* ------------------------------------------------------------------------
\* Segment - trigger primitive matching (particles/segment.py, ph2tp.py)
\* ------------------------------------------------------------------------
BXOffset == 20
PhiResConv == 131

\* ph2tp.py:53-66  Ph2TP._init_from_ev: the columns at the particle's index;
\* phi stays the raw integer code, BX is centred at 0
Ph2TP(index, raw) ==
    [k \in {"index", "wh", "sc", "st", "phi", "BX"} |->
        CASE k = "index" -> IntV(index)
          [] k = "BX" -> IntV(raw["BX"].v - BXOffset)
          [] OTHER -> raw[k]]

\* segment.py:95-99  the sector of the segment with 13 and 14 renumbered
NormSector(sc) == IF sc = 13 THEN 4 ELSE IF sc = 14 THEN 10 ELSE sc

\* segment.py:105  tp.phi / tp.phires_conv + math.pi / 6 * (tp.sc - 1)
TrigGlbPhi(tp) == (tp["phi"].v \div PhiResConv) + (TwoPi * (tp["sc"].v - 1)) \div 12

\* segment.py:102-107  same chamber, dphi below the threshold, BX == 0
AMMatches(seg, tp, max_dPhi) ==
    /\ tp["wh"].v = seg["wh"].v
    /\ tp["sc"].v = NormSector(seg["sc"].v)
    /\ tp["st"].v = seg["st"].v
    /\ WrapPhi(seg["phi"].v - TrigGlbPhi(tp)) < max_dPhi
    /\ tp["BX"].v = 0

\* _particle.py:80-101  __eq__ of two trigger primitives: every attribute
\* but index
TPEq(a, b) ==
    /\ DOMAIN a = DOMAIN b
    /\ \A k \in DOMAIN a \ {"index"} : ValEq(a[k], b[k])

\* segment.py:82  `tp in self.matches`: identity or ==; matches holds
\* positions of `tps`
InMatches(matches, tps, t) ==
    \E k \in 1..Len(matches) : matches[k] = t \/ TPEq(tps[matches[k]], tps[t])

\* segment.py:75-109  the matches list after self.match_offline_to_AM(tps[t])
match_offline_to_AM(seg, matches, tps, t, max_dPhi) ==
    IF AMMatches(seg, tps[t], max_dPhi) /\ ~InMatches(matches, tps, t)
    THEN Append(matches, t)
    ELSE matches

\* raw trigger-primitive rows: wh, sc, st, phi, BX
RawTPs ==
    {Attrs(<<"wh", "sc", "st", "phi", "BX">>, v) :
        v \in {<<1, 4, 2, 3930, 20>>, <<1, 4, 2, 3930, 21>>, <<1, 13, 2, 3930, 20>>,
               <<0, 4, 2, 3930, 20>>, <<1, 10, 2, 3930, 20>>, <<1, 4, 1, 3930, 20>>}}

\* segments: wh, sc, st, phi
AMSegments ==
    {Attrs(<<"wh", "sc", "st", "phi">>, v) :
        v \in {<<1, 13, 2, 1600>>, <<1, 4, 2, 1600>>, <<1, 14, 2, 0 - 1546>>,
               <<1, 13, 2, 1800>>}}

InitT ==
    /\ tseg \in {[attrs |-> a, matches |-> <<>>] : a \in AMSegments}
    /\ \E n \in 1..MaxTPs, raw \in [1..MaxTPs -> RawTPs] :
           ttps = [i \in 1..n |-> Ph2TP(i - 1, raw[i])]
    /\ tout = [op |-> "none", seen |-> {}]
    /\ IdleEL /\ IdleP /\ IdleA /\ IdleB /\ IdleF /\ IdleM /\ IdleS /\ IdleC /\ IdleD /\ IdleG /\ IdleX /\ IdleK /\ IdleR /\ IdleL /\ IdleI /\ IdleH /\ IdleN

\* seg.match_offline_to_AM(ev.tps[t], max_dPhi=0.1)
MatchTP(t) ==
    /\ tseg' = [tseg EXCEPT !.matches =
                    match_offline_to_AM(tseg.attrs, tseg.matches, ttps, t, MaxDPhi)]
    /\ tout' = [op |-> "match", seen |-> tout.seen \cup {t}]
    /\ UNCHANGED <<ttps, notT>>

NextT == \E t \in 1..Len(ttps) : MatchTP(t)

SpecT == InitT /\ [][NextT]_vars

\* ------------------------------------------------------------------------
\* Shower flags of generator muons (utils/genmuon_functions.py)
\* ------------------------------------------------------------------------
BoolV(b) == [t |-> "bool", v |-> b]

\* functions.py:254-274  get_unique_locs: the set of location tuples, or
\* ValueError when a particle lacks a location attribute
get_unique_locs(particles, loc_ids) ==
    IF \E k \in 1..Len(particles), i \in 1..Len(loc_ids) :
           loc_ids[i] \notin DOMAIN particles[k]
    THEN Raise("ValueError", "loc_id")
    ELSE Ok({[i \in 1..Len(loc_ids) |-> particles[k][loc_ids[i]].v] :
                k \in 1..Len(particles)})

\* getattr(gm, 'matched_segments', [])
MatchedSegments(gm) ==
    IF "matched_segments" \in DOMAIN gm THEN gm["matched_segments"].v ELSE <<>>

WhScSt == <<"wh", "sc", "st">>

\* a method 1 that flags on any matched segment
ShowerMethod1_AnyMatch(gm) ==
    Bind(get_unique_locs(MatchedSegments(gm), WhScSt),
         LAMBDA locs :
             IF ~locs.ok THEN locs
             ELSE IF Len(MatchedSegments(gm)) # 0
             THEN Ok(SetKey(gm, "showered", BoolV(TRUE)))
             ELSE Ok(gm))

\* genmuon_functions.py:77-80  method 1 on one generator muon
ShowerMethod1(gm) ==
    Bind(get_unique_locs(MatchedSegments(gm), WhScSt),
         LAMBDA locs :
             IF ~locs.ok THEN locs
             ELSE IF Len(MatchedSegments(gm)) # Cardinality(locs.val)
             THEN Ok(SetKey(gm, "showered", BoolV(TRUE)))
             ELSE Ok(gm))

ShowerMinHits == 8
ElectronPdg == 11

\* genmuon_functions.py:86-87  the simhits of a location that come from an
\* electron or a positron
RECURSIVE CountElectrons(_)
CountElectrons(simhits) ==
    IF simhits = <<>> THEN 0
    ELSE (IF simhits[1]["particle_type"].v \in {ElectronPdg, 0 - ElectronPdg}
          THEN 1 ELSE 0) + CountElectrons(Tail(simhits))

LocKwargs(loc) ==
    <<KwArg("wh", IntV(loc[1])), KwArg("sc", IntV(loc[2])), KwArg("st", IntV(loc[3]))>>

\* the electron simhits of all the locations together
RECURSIVE TotalElectrons(_, _)
TotalElectrons(ev, locs) ==
    IF locs = <<>> THEN 0
    ELSE CountElectrons(filter_particles(ev, "simhits", LocKwargs(Head(locs))).res.val)
         + TotalElectrons(ev, Tail(locs))

RECURSIVE ShowerLocs(_, _, _)
\* a loop that adds up the electron simhits of the locations
ShowerLocs_Summed(ev, gm, locs) ==
    IF \E k \in 1..Len(locs) : ~filter_particles(ev, "simhits", LocKwargs(locs[k])).res.ok
    THEN Raise("ValueError", "invalid_keys")
    ELSE IF TotalElectrons(ev, locs) >= ShowerMinHits
    THEN Ok(SetKey(gm, "showered", BoolV(TRUE)))
    ELSE Ok(gm)

\* genmuon_functions.py:85-89  the loop over the locations, in the order
\* `locs` of the set's iteration: flag and stop at the first location with
\* enough electron simhits
ShowerLocs(ev, gm, locs) ==
    IF locs = <<>> THEN Ok(gm)
    ELSE Bind(filter_particles(ev, "simhits", LocKwargs(Head(locs))).res,
              LAMBDA simhits :
                  IF ~simhits.ok THEN simhits
                  ELSE IF CountElectrons(simhits.val) >= ShowerMinHits
                  THEN Ok(SetKey(gm, "showered", BoolV(TRUE)))
                  ELSE ShowerLocs(ev, gm, Tail(locs)))

\* the elements of set S in the order they have in sequence `order`
RECURSIVE Ordered(_, _)
Ordered(S, order) ==
    IF order = <<>> THEN <<>>
    ELSE (IF Head(order) \in S THEN <<Head(order)>> ELSE <<>>) \o Ordered(S, Tail(order))

\* genmuon_functions.py:83-89  method 2 on one generator muon; the location
\* set is iterated in the order its elements have in `order`
ShowerMethod2(ev, gm, order) ==
    Bind(get_unique_locs(MatchedSegments(gm), WhScSt),
         LAMBDA locs : IF ~locs.ok THEN locs
                       ELSE ShowerLocs(ev, gm, Ordered(locs.val, order)))

\* genmuon_functions.py:68-89  the loop over ev.genmuons from position i; a
\* raise leaves the generator muons flagged so far as they are
RECURSIVE AnalyzeShowers(_, _, _, _, _)
AnalyzeShowers(ev, gms, method, i, orders) ==
    IF i > Len(gms) \/ method \notin {1, 2} THEN [ok |-> TRUE, gms |-> gms]
    ELSE Bind(IF method = 1 THEN ShowerMethod1(gms[i])
              ELSE ShowerMethod2(ev, gms[i], orders[i]),
              LAMBDA r :
                  IF ~r.ok THEN [ok |-> FALSE, gms |-> gms, err |-> r.err]
                  ELSE AnalyzeShowers(ev, [gms EXCEPT ![i] = r.val], method, i + 1, orders))

\* chamber locations (wh, sc, st)
LocA == <<1, 3, 2>>
LocB == <<1, 3, 3>>
LocC == <<0, 3, 2>>
SegmentAt(loc) == Attrs(WhScSt, loc)

\* the matched_segments a generator muon may carry; the last list holds a
\* segment without sector
MatchedLists ==
    {<<>>, <<SegmentAt(LocA)>>, <<SegmentAt(LocA), SegmentAt(LocB)>>,
     <<SegmentAt(LocA), SegmentAt(LocA)>>,
     <<SegmentAt(LocA), SegmentAt(LocA), SegmentAt(LocB)>>,
     <<SegmentAt(LocA), SegmentAt(LocC), SegmentAt(LocB)>>,
     <<SegmentAt(LocA), Attrs(<<"wh", "st">>, <<1, 2>>)>>}

\* generator muons: without matched_segments, or with one of the lists;
\* with showered = False (GenMuon) or without the attribute (Particle)
ShowerGenMuons ==
    {Attrs(<<"pt">>, <<5>>), Attrs(<<"pt">>, <<5>>) @@ [showered |-> BoolV(FALSE)]}
    \cup {Attrs(<<"pt">>, <<5>>) @@ [matched_segments |-> ListV(l)] : l \in MatchedLists}
    \cup {Attrs(<<"pt">>, <<5>>) @@ [showered |-> BoolV(FALSE), matched_segments |-> ListV(l)] :
              l \in MatchedLists}

RECURSIVE Repeat(_, _)
Repeat(x, n) == IF n = 0 THEN <<>> ELSE <<x>> \o Repeat(x, n - 1)

SimHit(loc, pdg) == Attrs(<<"wh", "sc", "st", "particle_type">>, loc \o <<pdg>>)
\* simhit collections: n hits of one origin at one location, concatenated
SimHitLists ==
    {Repeat(SimHit(LocA, 11), 8), Repeat(SimHit(LocA, 11), 7),
     Repeat(SimHit(LocA, 11), 4) \o Repeat(SimHit(LocB, 11), 4),
     Repeat(SimHit(LocA, 11), 4) \o Repeat(SimHit(LocA, 0 - 11), 4),
     Repeat(SimHit(LocA, 13), 8) \o Repeat(SimHit(LocA, 11), 2),
     Repeat(SimHit(LocC, 11), 9), <<>>}

WithIndex(l, name) ==
    [i \in 1..Len(l) |-> l[i] @@ [index |-> IntV(i - 1), name |-> StrV(name)]]

InitS ==
    /\ \E hits \in SimHitLists :
           sev \in {EventInit(NoRecord, 0, FALSE, NoTypesConfig).val,
                    EventSetAttr(EventInit(NoRecord, 0, FALSE, NoTypesConfig).val, "simhits",
                                 ListV(ParticleVSeq(WithIndex(hits, "Simhit"))))}
    /\ \/ sgms = [has |-> FALSE, list |-> <<>>]
       \/ \E g1 \in ShowerGenMuons, g2 \in ShowerGenMuons :
              /\ MatchedSegments(g2) \in {<<>>, <<SegmentAt(LocA), SegmentAt(LocA)>>}
              /\ sgms = [has |-> TRUE, list |-> WithIndex(<<g1, g2>>, "Genmuon")]
    /\ sout = [op |-> "none"]
    /\ IdleEL /\ IdleP /\ IdleA /\ IdleB /\ IdleF /\ IdleM /\ IdleT /\ IdleC /\ IdleD /\ IdleG /\ IdleX /\ IdleK /\ IdleR /\ IdleL /\ IdleI /\ IdleH /\ IdleN

\* the orders in which the set of all locations may be iterated
LocOrders ==
    {q \in [1..3 -> {LocA, LocB, LocC}] : \A i, j \in 1..3 : q[i] = q[j] => i = j}

\* analyze_genmuon_showers(ev, method); an event without genmuons is refused
\* (genmuon_functions.py:72-73)
Analyze(method) ==
    \E orders \in [1..Len(sgms.list) -> IF method = 2 THEN LocOrders ELSE {<<>>}] :
        \E r \in {IF sgms.has THEN AnalyzeShowers(sev, sgms.list, method, 1, orders)
                   ELSE [ok |-> FALSE, gms |-> <<>>, err |-> "ValueError"]} :
            /\ sgms' = [sgms EXCEPT !.list = r.gms]
            /\ sout' = [op |-> "analyze", method |-> method, raised |-> ~r.ok,
                        before |-> sgms.list]
            /\ UNCHANGED <<sev, notS>>

NextS == \E method \in {1, 2, 3} : Analyze(method)

SpecS == InitS /\ [][NextS]_vars

\* ------------------------------------------------------------------------
\* Confusion classification of showers (utils/histograms/shower_histos.py)
\* ------------------------------------------------------------------------
WhScStSl == <<"wh", "sc", "st", "sl">>

\* functions.py:276-305  get_best_matches: for each generator muon the last
\* of its matched segments that lies in the station
get_best_matches(reader, station) ==
    IF "genmuons" \notin DOMAIN reader.particles THEN Raise("AttributeError", "genmuons")
    ELSE Ok(SelectSeq(
             [i \in 1..Len(reader.particles["genmuons"]) |->
                 Bind(MatchedSegments(reader.particles["genmuons"][i]),
                      LAMBDA ms :
                          IF \E k \in 1..Len(ms) : ms[k]["st"].v = station
                          THEN <<ms[CHOOSE k \in 1..Len(ms) :
                                       /\ ms[k]["st"].v = station
                                       /\ \A j \in (k + 1)..Len(ms) : ms[j]["st"].v # station]>>
                          ELSE <<>>)],
             LAMBDA b : b # <<>>))

\* get_unique_locs(reader.filter_particles(ptype, st=station), loc_ids)
StationLocs(reader, ptype, station, loc_ids) ==
    Bind(filter_particles(reader, ptype, <<KwArg("st", IntV(station))>>).res,
         LAMBDA f : IF ~f.ok THEN f ELSE get_unique_locs(f.val, loc_ids))

\* shower_histos.py:45-52  the locations of the best matches that have a
\* trigger primitive, per superlayer 1 and 3 when by_sl
GmSegLocs(reader, station, by_sl) ==
    Bind(get_best_matches(reader, station),
         LAMBDA best :
             IF ~best.ok THEN best
             ELSE Bind(get_unique_locs(
                           SelectSeq([i \in 1..Len(best.val) |-> best.val[i][1]],
                                     LAMBDA seg : Len(seg["matches"].v) > 0),
                           WhScSt),
                       LAMBDA locs :
                           IF ~locs.ok \/ ~by_sl THEN locs
                           ELSE Ok({loc \o <<sl>> : loc \in locs.val, sl \in {1, 3}})))

\* shower_histos.py:37-60  get_locs_to_check: the set of locations
get_locs_to_check(reader, station, opt, by_sl) ==
    IF opt = 3
    THEN StationLocs(reader, "digis", station, IF by_sl THEN WhScStSl ELSE WhScSt)
    ELSE Bind(StationLocs(reader, "fwshowers", station, IF by_sl THEN WhScStSl ELSE WhScSt),
              LAMBDA fw :
                  IF ~fw.ok THEN fw
                  ELSE Bind(StationLocs(reader, "realshowers", station,
                                        IF by_sl THEN WhScStSl ELSE WhScSt),
                            LAMBDA real :
                                IF ~real.ok THEN real
                                ELSE IF opt = 1
                                THEN Bind(GmSegLocs(reader, station, by_sl),
                                          LAMBDA gm : IF ~gm.ok THEN gm
                                                      ELSE Ok(fw.val \cup real.val \cup gm.val))
                                ELSE IF opt = 2 THEN Ok(fw.val \cup real.val)
                                ELSE Raise("UnboundLocalError", "indexs")))

\* shower_histos.py:82-87  the keyword arguments of one location
IndexKwargs(index) ==
    [i \in 1..Len(index) |-> KwArg(WhScStSl[i], IntV(index[i]))]

TruePositive == 0
FalsePositive == 1
TrueNegative == 2
FalseNegative == 3

\* a classification with the classes of the two disagreements exchanged
Classify_Exchanged(real_showers, fwshowers) ==
    IF real_showers # <<>>
    THEN (IF fwshowers # <<>> THEN TruePositive ELSE FalsePositive)
    ELSE (IF fwshowers # <<>> THEN FalseNegative ELSE TrueNegative)

\* shower_histos.py:92-105  the class of one location
Classify(real_showers, fwshowers) ==
    IF real_showers # <<>>
    THEN (IF fwshowers # <<>> THEN TruePositive ELSE FalseNegative)
    ELSE (IF fwshowers # <<>> THEN FalsePositive ELSE TrueNegative)

\* shower_histos.py:80-105  the loop of compute_tpfptnfn over the locations
\* in iteration order: one (wh, class) per location
RECURSIVE compute_tpfptnfn(_, _, _)
compute_tpfptnfn(reader, indexs, output) ==
    IF indexs = <<>> THEN Ok(output)
    ELSE Bind(filter_particles(reader, "realshowers", IndexKwargs(Head(indexs))).res,
              LAMBDA real_showers :
                  IF ~real_showers.ok THEN real_showers
                  ELSE Bind(filter_particles(reader, "fwshowers",
                                             IndexKwargs(Head(indexs))).res,
                            LAMBDA fwshowers :
                                IF ~fwshowers.ok THEN fwshowers
                                ELSE compute_tpfptnfn(reader, Tail(indexs),
                                         Append(output,
                                             <<Head(indexs)[1],
                                               Classify(real_showers.val,
                                                        fwshowers.val)>>))))

\* shower_histos.py:76-107  compute_tpfptnfn: the location set, iterated in
\* the order its elements have in `order`
Tpfptnfn(reader, station, opt, by_sl, order) ==
    Bind(get_locs_to_check(reader, station, opt, by_sl),
         LAMBDA indexs : IF ~indexs.ok THEN indexs
                         ELSE compute_tpfptnfn(reader, Ordered(indexs.val, order), <<>>))

\* shower_histos.py:112-113  shower_eff_func: the wheel of each location
shower_eff_func(reader, station, opt, by_sl, order) ==
    Bind(get_locs_to_check(reader, station, opt, by_sl),
         LAMBDA indexs :
             IF ~indexs.ok THEN indexs
             ELSE Ok([i \in 1..Cardinality(indexs.val) |->
                         Ordered(indexs.val, order)[i][1]]))

\* shower_histos.py:115-116  shower_eff_numdef: class 0 or 2
shower_eff_numdef(reader, station, opt, by_sl, order) ==
    Bind(Tpfptnfn(reader, station, opt, by_sl, order),
         LAMBDA r : IF ~r.ok THEN r
                    ELSE Ok([i \in 1..Len(r.val) |->
                                r.val[i][2] = TruePositive \/ r.val[i][2] = TrueNegative]))

Min2(a, b) == IF a < b THEN a ELSE b

\* fill_histograms.py:105-118  the efficiency histogram: the denominator is
\* filled for every value, the numerator for those that pass; a function
\* that raises is reported and the histogram is skipped
FillEff(val, numPasses) ==
    IF ~val.ok \/ ~numPasses.ok THEN <<>>
    ELSE [i \in 1..Min2(Len(val.val), Len(numPasses.val)) |->
             [den |-> val.val[i], num |-> numPasses.val[i]]]

\* showers and digis carry wh, sc, st and sl
Shower(loc, sl) == Attrs(WhScStSl, loc \o <<sl>>)
\* a segment with n matched trigger primitives
MatchedSegment(loc, n) == SegmentAt(loc) @@ [matches |-> ListV(Repeat(IntV(0), n))]
GenMuonWith(segs) == Attrs(<<"pt">>, <<5>>) @@ [matched_segments |-> ListV(segs)]

Absent == [has |-> FALSE, list |-> <<>>]
Present(l) == [has |-> TRUE, list |-> l]

FwShowerLists ==
    {Absent, Present(<<Shower(LocA, 1)>>),
     Present(<<Shower(LocA, 1), Shower(LocA, 3)>>),
     Present(<<Shower(LocA, 1), Shower(LocC, 1)>>),
     Present(<<Shower(LocA, 1), Shower(LocB, 1)>>)}
RealShowerLists ==
    {Present(<<>>), Present(<<Shower(LocA, 1)>>), Present(<<Shower(LocC, 3)>>),
     Present(<<Shower(LocA, 1), Shower(LocC, 1)>>), Present(<<Shower(LocB, 1)>>)}
DigiLists ==
    {Absent, Present(<<Shower(LocA, 1), Shower(LocC, 3), Shower(LocB, 1)>>)}
ClassGenMuons ==
    {Absent,
     Present(<<GenMuonWith(<<MatchedSegment(LocA, 1), MatchedSegment(LocC, 1)>>)>>),
     Present(<<GenMuonWith(<<MatchedSegment(LocC, 0)>>)>>),
     Present(<<GenMuonWith(<<MatchedSegment(LocA, 1)>>),
               GenMuonWith(<<MatchedSegment(LocC, 1), MatchedSegment(LocB, 1)>>)>>)}

\* event.<name> = list, when the list is there
WithCollection(e, name, l) ==
    IF l.has THEN EventSetAttr(e, name, ListV(ParticleVSeq(WithIndex(l.list, name)))) ELSE e

\* every location, with and without superlayer, in one order and in the
\* opposite one
LocUniverse ==
    <<LocA, LocB, LocC, LocA \o <<1>>, LocA \o <<3>>, LocB \o <<1>>, LocB \o <<3>>,
      LocC \o <<1>>, LocC \o <<3>>>>
Reversed(q) == [i \in 1..Len(q) |-> q[Len(q) + 1 - i]]

InitC ==
    /\ \E fw \in FwShowerLists, real \in RealShowerLists, digis \in DigiLists,
          gms \in ClassGenMuons :
           cev = WithCollection(WithCollection(WithCollection(WithCollection(
                     EventInit(NoRecord, 0, FALSE, NoTypesConfig).val,
                     "fwshowers", fw), "realshowers", real), "digis", digis),
                     "genmuons", gms)
    /\ corder \in {LocUniverse, Reversed(LocUniverse)}
    /\ cout = [op |-> "none"]
    /\ IdleEL /\ IdleP /\ IdleA /\ IdleB /\ IdleF /\ IdleM /\ IdleT /\ IdleS /\ IdleD /\ IdleG /\ IdleX /\ IdleK /\ IdleR /\ IdleL /\ IdleI /\ IdleH /\ IdleN

\* fill_histograms(ev, ...) for the confusion map and the efficiency of a
\* station, mode and granularity
FillShowerHistos(station, opt, by_sl) ==
    /\ cout' = [op |-> "fill", station |-> station, opt |-> opt, by_sl |-> by_sl,
                locs |-> get_locs_to_check(cev, station, opt, by_sl),
                tpfptnfn |-> Tpfptnfn(cev, station, opt, by_sl, corder),
                eff |-> FillEff(shower_eff_func(cev, station, opt, by_sl, corder),
                                shower_eff_numdef(cev, station, opt, by_sl, corder))]
    /\ UNCHANGED <<cev, corder, notC>>

NextC == \E station \in {2, 3}, opt \in {1, 2, 3, 4}, by_sl \in BOOLEAN :
             FillShowerHistos(station, opt, by_sl)

SpecC == InitC /\ [][NextC]_vars

\* ------------------------------------------------------------------------
\* Event.to_dict (base/event.py)
\* ------------------------------------------------------------------------
\* event.py:206-214  Event.to_dict: the fields of __dict__ but _particles,
\* then for each particle type the list of the particles' own __dict__
to_dict(e, H) ==
    [key \in DOMAIN e.dict \cup DOMAIN e.particles |->
        IF key \in DOMAIN e.particles
        THEN ListV([i \in 1..Len(e.particles[key]) |-> MapV(H[e.particles[key][i]])])
        ELSE e.dict[key]]

\* the segment kinds of the serialized events
DictSegmentKinds ==
    {Attrs(<<"phi", "eta", "nHits_phi", "nHits_z", "st">>, v) :
        v \in {<<60, 120, 5, 5, 2>>, <<3150, 120, 5, 5, 2>>, <<60, 450, 5, 5, 2>>}}

InitD ==
    /\ \E gms \in [1..2 -> GenMuonKinds], segs \in [1..MaxSegments -> DictSegmentKinds] :
           dheap = NewHeap(gms, segs)
    /\ \E index \in {0, 4} :
           dev = EventSetAttr(EventSetAttr(EventInit(NoRecord, index, FALSE, NoTypesConfig).val,
                                  "genmuons",
                                  ListV(ParticleVSeq(<<Ref("genmuon", 1), Ref("genmuon", 2)>>))),
                     "segments", ListV(ParticleVSeq(SegmentList)))
    /\ dout = [op |-> "none"]
    /\ IdleEL /\ IdleP /\ IdleA /\ IdleB /\ IdleF /\ IdleM /\ IdleT /\ IdleS /\ IdleC /\ IdleG /\ IdleX /\ IdleK /\ IdleR /\ IdleL /\ IdleI /\ IdleH /\ IdleN

\* analyze_genmuon_matches, one generator muon: the particles get their
\* matched lists
DictMatch(gm) ==
    \E r \in {MatchSegments(dheap, gm, SegmentList)} :
        /\ r.ok
        /\ dheap' = r.heap
        /\ UNCHANGED <<dev, dout, notD>>

\* d = event.to_dict()
ToDict ==
    /\ dout' = [op |-> "to_dict", d |-> to_dict(dev, dheap)]
    /\ UNCHANGED <<dheap, dev, notD>>

NextD == (\E gm \in GenMuonRefs : DictMatch(gm)) \/ ToDict

SpecD == InitD /\ [][NextD]_vars

\* ------------------------------------------------------------------------
\* Attribute access of Event (base/event.py)
\* ------------------------------------------------------------------------
\* event.<name>: the instance __dict__ is looked up first; __getattr__
\* (event.py:57-68) is called only when that fails
EventGetAttr(e, name) ==
    IF name \in DOMAIN e.dict THEN Ok(e.dict[name])
    ELSE IF name \in DOMAIN e.particles THEN Ok(ListV(ParticleVSeq(e.particles[name])))
    ELSE Raise("AttributeError", name)

AttrParticle(i) == ParticleV(Attrs(<<"wh">>, <<1>>) @@ [index |-> IntV(i), name |-> StrV("Particle")])

AssignedNames == {"index", "showers"}
AssignedValues ==
    {IntV(7), AttrParticle(0), ListV(<<>>),
     ListV(<<AttrParticle(0), AttrParticle(1)>>), ListV(<<AttrParticle(0), IntV(7)>>)}

InitG ==
    /\ \E index \in {0, 4} : gev = EventInit(NoRecord, index, FALSE, NoTypesConfig).val
    /\ gout = [op |-> "none"]
    /\ IdleEL /\ IdleP /\ IdleA /\ IdleB /\ IdleF /\ IdleM /\ IdleT /\ IdleS /\ IdleC /\ IdleD /\ IdleX /\ IdleK /\ IdleR /\ IdleL /\ IdleI /\ IdleH /\ IdleN

\* event.<name> = value
SetAttr(name, value) ==
    /\ gev' = EventSetAttr(gev, name, value)
    /\ gout' = [op |-> "set", name |-> name, value |-> value,
                particles_before |-> gev.particles]
    /\ UNCHANGED notG

\* event.<name>, with the assignment it follows when it follows one
GetAttr(name) ==
    /\ gout' = [op |-> "get", name |-> name, res |-> EventGetAttr(gev, name),
                follows |-> gout.op = "set" /\ gout.name = name,
                value |-> IF gout.op = "set" /\ gout.name = name THEN gout.value ELSE NoneV]
    /\ UNCHANGED <<gev, notG>>

NextG ==
    \/ \E name \in AssignedNames, value \in AssignedValues : SetAttr(name, value)
    \/ \E name \in AssignedNames : GetAttr(name)

SpecG == InitG /\ [][NextG]_vars

\* ------------------------------------------------------------------------
\* A particle built from an attribute table in declared order
\* ------------------------------------------------------------------------
\* the entries a table may hold: plain values, a branch and derivations
TableEntries ==
    <<ValueAttr("wh", IntV(0 - 1)), ValueAttr("wh", IntV(2)),
      ValueAttr("st", IntV(1)), ValueAttr("st", IntV(4)),
      DictAttr("wh", AttrInfo("digi_wheel", None, None, None, None)),
      DictAttr("side", AttrInfo(None, "wh + 1", None, None, None)),
      DictAttr("twice", AttrInfo(None, "st * 2", None, None, None)),
      DictAttr("side", AttrInfo(None, "wh + 1", None, None, "bool"))>>

MaxAttrs == 3
\* **kwargs of at most MaxAttrs entries, by their place in TableEntries: a
\* dict, so no attribute is named twice
Tables ==
    UNION {{t \in [1..n -> 1..Len(TableEntries)] :
               \A i, j \in 1..n :
                   TableEntries[t[i]].attr = TableEntries[t[j]].attr => i = j} :
           n \in 0..MaxAttrs}
Table(t) == [i \in 1..Len(t) |-> TableEntries[t[i]]]

InitX ==
    /\ xtable \in Tables
    /\ xout = [op |-> "none"]
    /\ IdleEL /\ IdleP /\ IdleA /\ IdleB /\ IdleF /\ IdleM /\ IdleT /\ IdleS /\ IdleC /\ IdleD /\ IdleG /\ IdleK /\ IdleR /\ IdleL /\ IdleI /\ IdleH /\ IdleN

\* Particle(index, ev, **table)
Construct(index) ==
    /\ xout' = [op |-> "init", index |-> index,
                res |-> ParticleInit("Particle", index, ARecord, Table(xtable))]
    /\ UNCHANGED <<xtable, notX>>

NextX == \E index \in 0..1 : Construct(index)

SpecX == InitX /\ [][NextX]_vars

\* ------------------------------------------------------------------------
\* One particle type built, filtered and sorted (Event._build_particles)
\* ------------------------------------------------------------------------
\* records: an integer column n and a column wheel of MaxBuilt values
KRecords ==
    {[c \in {"n", "wheel"} |-> IF c = "n" THEN IntCol(n) ELSE VecCol(w)] :
        n \in {MaxBuilt - 1, MaxBuilt}, w \in [1..MaxBuilt -> {0 - 1, 1, 2}]}

\* builders: the amount as a literal, an integer column, a sequence column,
\* a column the record lacks, or absent; with or without filter and sorter
KInfos ==
    {PInfo(amount, None, <<DictAttr("wh", Branch("wheel"))>>, filter, sorter) :
        amount \in {IntV(2), [t |-> "str", v |-> "n"], [t |-> "str", v |-> "wheel"],
                    [t |-> "str", v |-> "nosuch"], NoAmount},
        filter \in {None, "p.wh > 0"},
        sorter \in {NoSorter, Sorter("p.wh", FALSE), Sorter("p.wh", TRUE)}}

InitK ==
    /\ krec \in KRecords
    /\ kinfo \in KInfos
    /\ kout = [op |-> "none"]
    /\ IdleEL /\ IdleP /\ IdleA /\ IdleB /\ IdleF /\ IdleM /\ IdleT /\ IdleS /\ IdleC /\ IdleD /\ IdleG /\ IdleX /\ IdleR /\ IdleL /\ IdleI /\ IdleH /\ IdleN

\* Event(ev, index, use_config=True, CONFIG) with the one particle type "digis"
BuildType(index) ==
    /\ kout' = [op |-> "build", index |-> index,
                res |-> EventInit(krec, index, TRUE, Config(<<PType("digis", kinfo)>>))]
    /\ UNCHANGED <<krec, kinfo, notK>>

NextK == \E index \in {0, 1} : BuildType(index)

SpecK == InitK /\ [][NextK]_vars

\* ------------------------------------------------------------------------
\* An EventList whose constructor and preprocessors can raise
\* (base/event_list.py, base/ntuple.py, utils/genmuon_functions.py)
\* ------------------------------------------------------------------------
\* the particles of a built event by reference: ev.genmuons and ev.segments
HeapOf(e) ==
    [r \in {Ref("genmuon", i) : i \in 1..NumOf(e, "genmuons")}
           \cup {Ref("segment", i) : i \in 1..NumOf(e, "segments")} |->
        IF r.kind = "genmuon" THEN e.particles["genmuons"][r.i]
        ELSE e.particles["segments"][r.i]]

\* the (gm, seg) pairs in the order of the loops of genmuon_functions.py:58-62
LoopPairs(ngm, nseg) ==
    [k \in 1..(ngm * nseg) |->
        <<Ref("genmuon", ((k - 1) \div nseg) + 1), Ref("segment", ((k - 1) % nseg) + 1)>>]

\* getattr(obj, name, []) on the heap
MatchedList(H, obj, name) == IF name \in DOMAIN H[obj] THEN H[obj][name].v ELSE <<>>
PairLists(H, gm, seg) ==
    <<MatchedList(H, gm, "matched_segments"), MatchedList(H, gm, "matched_genmuons"),
      MatchedList(H, seg, "matched_segments"), MatchedList(H, seg, "matched_genmuons")>>

MatchCall(gm, seg, raised, before, after) ==
    [gm |-> gm, seg |-> seg, raised |-> raised, before |-> before, after |-> after]

\* genmuon_functions.py:58-62  match_genmuon_offline_segment(gm, seg, 0.1, 0.3)
\* for every pair; the first call that raises ends the loops.  `calls` is the
\* trace of the calls made with the matched lists of each pair before and after
RECURSIVE MatchPairs(_, _, _)
MatchPairs(H, pairs, calls) ==
    IF pairs = <<>> THEN [ok |-> TRUE, heap |-> H, calls |-> calls]
    ELSE Bind(match_genmuon_offline_segment(H, Head(pairs)[1], Head(pairs)[2],
                                            MaxDPhi, MaxDEta),
              LAMBDA r :
                  Bind(Append(calls,
                              MatchCall(Head(pairs)[1], Head(pairs)[2], ~r.ok,
                                        PairLists(H, Head(pairs)[1], Head(pairs)[2]),
                                        PairLists(r.heap, Head(pairs)[1], Head(pairs)[2]))),
                       LAMBDA cs :
                           IF ~r.ok
                           THEN [ok |-> FALSE, heap |-> r.heap, calls |-> cs, err |-> r.err]
                           ELSE MatchPairs(r.heap, Tail(pairs), cs)))

\* an event of this list: its plain attributes, its particles by reference
\* and the matching calls made on them
BuiltEvent(e) ==
    [dict |-> e.dict, heap |-> HeapOf(e), ngm |-> NumOf(e, "genmuons"),
     nseg |-> NumOf(e, "segments"), calls |-> <<>>]

\* preprocessors: the matching pass, which can raise, a counter, and one that
\* deletes nHits_z from the last segment
RaisingPreprocessors == {"matches", "count", "drop_z"}
DropZ(H, nseg) ==
    IF nseg = 0 THEN H
    ELSE [H EXCEPT ![Ref("segment", nseg)] =
             [k \in (DOMAIN H[Ref("segment", nseg)]) \ {"nHits_z"} |->
                 H[Ref("segment", nseg)][k]]]
RunRaisingPreprocessor(name, E) ==
    IF name = "matches"
    THEN Bind(MatchPairs(E.heap, LoopPairs(E.ngm, E.nseg), E.calls),
              LAMBDA r : IF r.ok THEN Ok([E EXCEPT !.heap = r.heap, !.calls = r.calls])
                         ELSE [ok |-> FALSE, err |-> r.err, what |-> "matches",
                               ev |-> [E EXCEPT !.heap = r.heap, !.calls = r.calls]])
    ELSE IF name = "drop_z" THEN Ok([E EXCEPT !.heap = DropZ(E.heap, E.nseg)])
    ELSE Ok([E EXCEPT !.dict = SetKey(E.dict, "acc", IntV(GetOr(E, "acc", 0) + 1))])

RunRaisingSelector(name, E) ==
    IF name = "has_segments" THEN E.nseg > 0 ELSE GetOr(E, "acc", 0) > 0

RaisedCall(name) == [kind |-> "pre", name |-> name, ret |-> FALSE]

\* a pass that swallows the error of a preprocessor and goes on
RECURSIVE preprocess_event_CatchAll(_, _, _)
preprocess_event_CatchAll(pre_list, E, log) ==
    IF pre_list = <<>> THEN [ok |-> TRUE, ev |-> E, log |-> log]
    ELSE Bind(RunRaisingPreprocessor(Head(pre_list), E),
              LAMBDA r :
                  IF ~r.ok
                  THEN preprocess_event_CatchAll(Tail(pre_list), r.ev,
                                                 Append(log, RaisedCall(Head(pre_list))))
                  ELSE preprocess_event_CatchAll(Tail(pre_list), r.val,
                                                 Append(log, PreCall(Head(pre_list)))))

\* ntuple.py:81-91  _preprocess_event: `for preprocessor in
\* self._preprocessors: preprocessor(ev)`; a raise leaves the loop
RECURSIVE preprocess_event(_, _, _)
preprocess_event(pre_list, E, log) ==
    IF pre_list = <<>> THEN [ok |-> TRUE, ev |-> E, log |-> log]
    ELSE Bind(RunRaisingPreprocessor(Head(pre_list), E),
              LAMBDA r :
                  IF ~r.ok
                  THEN [ok |-> FALSE, err |-> r.err, ev |-> r.ev,
                        log |-> Append(log, RaisedCall(Head(pre_list)))]
                  ELSE preprocess_event(Tail(pre_list), r.val,
                                        Append(log, PreCall(Head(pre_list)))))

\* ntuple.py:93-102  _select_event: all() over the selectors
RECURSIVE select_event(_, _, _)
select_event(sels, E, log) ==
    IF sels = <<>> THEN [ret |-> TRUE, log |-> log]
    ELSE Bind(RunRaisingSelector(Head(sels), E),
              LAMBDA r :
                  IF ~r THEN [ret |-> FALSE, log |-> Append(log, SelCall(Head(sels), r))]
                  ELSE select_event(Tail(sels), E, Append(log, SelCall(Head(sels), r))))

\* ntuple.py:61-79  NTuple.event_processor with preprocessors that can raise:
\* the value returned or the error that leaves the call, and the calls made
process_event(pl, E) ==
    Bind(IF pl.pre # <<>> THEN preprocess_event(pl.pre, E, <<>>)
         ELSE [ok |-> TRUE, ev |-> E, log |-> <<>>],
         LAMBDA pre :
             IF ~pre.ok
             THEN [res |-> Raise(pre.err, "preprocessor"), log |-> pre.log, ev |-> pre.ev]
             ELSE Bind(IF pl.sel # <<>> THEN select_event(pl.sel, pre.ev, pre.log)
                       ELSE [ret |-> TRUE, log |-> pre.log],
                       LAMBDA sel :
                           [res |-> Ok(IF sel.ret THEN EventV(pre.ev) ELSE NoneV),
                            log |-> sel.log, ev |-> pre.ev]))

\* event_list.py:53-55,85-86  Event(ev, iev, use_config=True), then the
\* processor on it
BuildThenProcess(config, pl, ev, iev) ==
    Bind(EventInit(ev, iev, TRUE, config),
         LAMBDA made :
             IF ~made.ok
             THEN [res |-> Raise(made.err, made.what), log |-> <<>>, ev |-> NoneV]
             ELSE process_event(pl, BuiltEvent(made.val)))

\* event_list.py:43-58  events[index] for an integer index
GetEvent(tr, config, pl, index) ==
    IF Abs(index) >= Len(tr)
    THEN [res |-> Raise("IndexError", "Event index out of range"), log |-> <<>>,
          ev |-> NoneV]
    ELSE Bind(IF index < 0 THEN index + Len(tr) ELSE index,
              LAMBDA i : BuildThenProcess(config, pl, tr[i + 1], i))

\* the configuration: generator muons and segments built from columns; the
\* second one declares no nHits_z for segments
MatchConfig(seg_attrs) ==
    Config(<<PType("genmuons",
                   PInfo([t |-> "str", v |-> "gen_n"], None,
                         <<DictAttr("phi", Branch("gen_phi")),
                           DictAttr("eta", Branch("gen_eta"))>>, None, NoSorter)),
             PType("segments",
                   PInfo([t |-> "str", v |-> "seg_n"], None,
                         [k \in 1..Len(seg_attrs) |->
                             DictAttr(seg_attrs[k], Branch(seg_attrs[k]))],
                         None, NoSorter))>>)
MatchConfigs ==
    {MatchConfig(<<"phi", "eta", "st", "nHits_phi", "nHits_z">>),
     MatchConfig(<<"phi", "eta", "st", "nHits_phi">>)}

\* records: the generator muons (phi, eta) and the segments (phi, eta, st,
\* nHits_phi, nHits_z) as columns; has_n says whether seg_n is a column
MatchRecord(gms, segs, has_n) ==
    [c \in {"gen_n", "gen_phi", "gen_eta", "phi", "eta", "st", "nHits_phi", "nHits_z"}
           \cup (IF has_n THEN {"seg_n"} ELSE {}) |->
        CASE c = "gen_n" -> IntCol(Len(gms))
          [] c = "seg_n" -> IntCol(Len(segs))
          [] c = "gen_phi" -> VecCol([i \in 1..Len(gms) |-> gms[i][1]])
          [] c = "gen_eta" -> VecCol([i \in 1..Len(gms) |-> gms[i][2]])
          [] c = "phi" -> VecCol([i \in 1..Len(segs) |-> segs[i][1]])
          [] c = "eta" -> VecCol([i \in 1..Len(segs) |-> segs[i][2]])
          [] c = "st" -> VecCol([i \in 1..Len(segs) |-> segs[i][3]])
          [] c = "nHits_phi" -> VecCol([i \in 1..Len(segs) |-> segs[i][4]])
          [] OTHER -> VecCol([i \in 1..Len(segs) |-> segs[i][5]])]
MatchRecords ==
    {MatchRecord(<<<<50, 100>>, <<50, 100>>>>,
                 <<<<60, 120, 2, 5, 5>>, <<60, 120, 2, 5, 5>>>>, TRUE),
     MatchRecord(<<<<50, 100>>>>, <<>>, TRUE),
     MatchRecord(<<<<50, 100>>>>, <<<<60, 120, 2, 5, 5>>>>, FALSE)}

RaisingPipelines ==
    {[pre |-> <<"matches", "count">>, sel |-> <<"has_segments">>],
     [pre |-> <<"count", "matches", "drop_z", "matches">>, sel |-> <<"has_acc">>]}

InitR ==
    /\ rcfg \in MatchConfigs
    /\ \E n \in 1..MaxRaising : rtree \in [1..n -> MatchRecords]
    /\ rpipe \in RaisingPipelines
    /\ rit = [status |-> "none"]
    /\ rgen = [status |-> "none"]
    /\ rout = [op |-> "none"]
    /\ IdleEL /\ IdleP /\ IdleA /\ IdleB /\ IdleF /\ IdleM /\ IdleT /\ IdleS /\ IdleC /\ IdleD /\ IdleG /\ IdleX /\ IdleK /\ IdleL /\ IdleI /\ IdleH /\ IdleN

ROutcome(op, index, r) ==
    [op |-> op, index |-> index, res |-> r.res, log |-> r.log, ev |-> r.ev]
Stopped(op) ==
    [op |-> op, index |-> 0, res |-> Raise("StopIteration", ""), log |-> <<>>, ev |-> NoneV]

\* events[i]
RGetItem(i) ==
    \E r \in {GetEvent(rtree, rcfg, rpipe, i)} :
        /\ rout' = ROutcome("get", i, r)
        /\ UNCHANGED <<rcfg, rtree, rpipe, rit, rgen, notR>>

\* events[a:b:c]: event_list.py:41-42, only the generator object is made;
\* the caller holds one generator at a time and drops the other
RGetSlice(sl) ==
    /\ rgen' = [status |-> "open", todo |-> SliceRange(sl, Len(rtree))]
    /\ rit' = [status |-> "none"]
    /\ rout' = [op |-> "slice"]
    /\ UNCHANGED <<rcfg, rtree, rpipe, notR>>

\* next() on the slice generator: self[i] for the next i; a generator that
\* raised is finished
RSliceNext ==
    /\ rgen.status # "none"
    /\ IF rgen.status = "done" \/ rgen.todo = <<>>
       THEN /\ rgen' = [status |-> "done", todo |-> <<>>]
            /\ rout' = Stopped("slice_next")
       ELSE \E r \in {GetEvent(rtree, rcfg, rpipe, Head(rgen.todo))} :
                /\ rgen' = [status |-> IF r.res.ok THEN "open" ELSE "done",
                            todo |-> Tail(rgen.todo)]
                /\ rout' = ROutcome("slice_next", Head(rgen.todo), r)
    /\ UNCHANGED <<rcfg, rtree, rpipe, rit, notR>>

\* iter(events)
RIterStart ==
    /\ rit' = [status |-> "open", pos |-> 0]
    /\ rgen' = [status |-> "none"]
    /\ rout' = [op |-> "iter"]
    /\ UNCHANGED <<rcfg, rtree, rpipe, notR>>

\* next() on the iteration: event_list.py:80-86
RIterNext ==
    /\ rit.status # "none"
    /\ IF rit.status = "done" \/ rit.pos >= Len(rtree)
       THEN /\ rit' = [status |-> "done", pos |-> Len(rtree)]
            /\ rout' = Stopped("iter_next")
       ELSE \E r \in {BuildThenProcess(rcfg, rpipe, rtree[rit.pos + 1], rit.pos)} :
                /\ rit' = [status |-> IF r.res.ok THEN "open" ELSE "done",
                           pos |-> rit.pos + 1]
                /\ rout' = ROutcome("iter_next", rit.pos, r)
    /\ UNCHANGED <<rcfg, rtree, rpipe, rgen, notR>>

NextR ==
    \/ \E i \in (0 - MaxRaising)..MaxRaising : RGetItem(i)
    \/ \E sl \in {Slice(NoneV, NoneV, NoneV), Slice(NoneV, NoneV, IntV(0 - 1))} :
           RGetSlice(sl)
    \/ RSliceNext
    \/ RIterStart
    \/ RIterNext

SpecR == InitR /\ [][NextR]_vars

\* ------------------------------------------------------------------------
\* NTuple.load_tree (base/ntuple.py)
\* ------------------------------------------------------------------------
\* an entry of the scanned directory: <sub/>file_<num>.<root|txt>
FileEntry(sub, num, root) == [sub |-> sub, num |-> num, root |-> root]
NoFile == FileEntry(FALSE, 0, FALSE)
FileEntries == {FileEntry(sub, num, root) : sub \in BOOLEAN, num \in {2, 10}, root \in BOOLEAN}

\* ntuple.py:159  `"root" in inpath`, on the paths used here
InputPaths == {"/data/ntuples", "/data/run2", "/data/root_files"}
HasRootInName(inpath) == inpath = "/data/root_files"

\* ntuple.py:148-156  get_root_files: the entries ending in .root, in scan order
RECURSIVE get_root_files(_)
get_root_files(scan) ==
    IF scan = <<>> THEN <<>>
    ELSE IF Head(scan).root THEN <<Head(scan)>> \o get_root_files(Tail(scan))
    ELSE get_root_files(Tail(scan))

\* natsort key of the path: the text up to the number ("<dir>/file_" sorts
\* before "<dir>/sub/file_"), then the number as an integer
NatLess(a, b) ==
    IF a.sub # b.sub THEN b.sub ELSE a.num < b.num

RECURSIVE NatInsert(_, _)
NatInsert(sorted, f) ==
    IF sorted = <<>> THEN <<f>>
    ELSE IF NatLess(f, Head(sorted)) THEN <<f>> \o sorted
    ELSE <<Head(sorted)>> \o NatInsert(Tail(sorted), f)

\* ntuple.py:165  natsorted(files): a stable sort by the natural key
RECURSIVE natsorted(_, _)
natsorted(done, todo) ==
    IF todo = <<>> THEN done ELSE natsorted(NatInsert(done, Head(todo)), Tail(todo))

Added(path, f) == [path |-> path, file |-> f]
\* self.tree before and after load_tree, with the maxfiles it was asked for
NoChain == [loaded |-> FALSE, files |-> <<>>, asked |-> 0]
Chain(files, asked) == [loaded |-> TRUE, files |-> files, asked |-> asked]

\* ntuple.py:158-171  the chain and _maxfiles that load_tree leaves
load_tree(inpath, scan, maxfiles) ==
    IF HasRootInName(inpath)
    THEN [chain |-> <<Added(inpath, NoFile)>>, maxfiles |-> 1]
    ELSE LET allFiles == natsorted(<<>>, get_root_files(scan))
             nFiles == IF maxfiles = 0 - 1 THEN Len(allFiles)
                       ELSE IF Len(allFiles) < maxfiles THEN Len(allFiles) ELSE maxfiles
         IN  [chain |-> [iF \in 1..nFiles |-> Added(inpath, allFiles[iF])],
              maxfiles |-> nFiles]

Scans ==
    {s \in UNION {[1..n -> FileEntries] : n \in 0..MaxFiles} :
        \A i, j \in 1..Len(s) : s[i] = s[j] => i = j}

\* NTuple(inputFolder, maxfiles=...) before load_tree runs
InitL ==
    /\ lpath \in InputPaths
    /\ lscan \in Scans
    /\ lmax \in {0 - 1, 0, 1, 2, MaxFiles + 1}
    /\ lchain = NoChain
    /\ IdleEL /\ IdleP /\ IdleA /\ IdleB /\ IdleF /\ IdleM /\ IdleT /\ IdleS /\ IdleC /\ IdleD /\ IdleG /\ IdleX /\ IdleK /\ IdleR /\ IdleI /\ IdleH /\ IdleN

\* self.load_tree(inputFolder)
LoadTree ==
    /\ ~lchain.loaded
    /\ \E r \in {load_tree(lpath, lscan, lmax)} :
           /\ lchain' = Chain(r.chain, lmax)
           /\ lmax' = r.maxfiles
    /\ UNCHANGED <<lpath, lscan, notL>>

NextL == LoadTree

SpecL == InitL /\ [][NextL]_vars

\* ------------------------------------------------------------------------
\* !include resolution (base/config.py)
\* ------------------------------------------------------------------------
\* a line of a YAML file: plain text, or `!include <path>`
PlainLine == [include |-> None]
IncludeLine(path) == [include |-> path]
\* the root configuration and the files it may include; "b.yaml" may be absent
\* and has one line at most
YamlPaths == {"main.yaml", "a.yaml", "b.yaml"}
YamlLines == {PlainLine} \cup {IncludeLine(f) : f \in YamlPaths}
YamlContents == UNION {[1..n -> YamlLines] : n \in 0..MaxLines}

\* a call of _resolve_includes: the file whose content it resolves, the lines
\* it still has to read and processed_lines (a plain line is kept as the name
\* of the file it comes from)
Frame(path, lines) == [path |-> path, lines |-> lines, processed |-> <<>>]

\* a `visited` that keeps a file after it has been inlined
Unvisit_Keep(visited, full_path) == visited

\* config.py:82  visited.remove(full_path)
Unvisit(visited, full_path) == visited \ {full_path}

InitI ==
    /\ \E present \in {YamlPaths, YamlPaths \ {"b.yaml"}} :
           /\ ifiles \in [present -> YamlContents]
           /\ "b.yaml" \in present => Len(ifiles["b.yaml"]) <= 1
    /\ istack = <<>>
    /\ ivisited = {}
    /\ iout = [status |-> "none"]
    /\ IdleEL /\ IdleP /\ IdleA /\ IdleB /\ IdleF /\ IdleM /\ IdleT /\ IdleS /\ IdleC /\ IdleD /\ IdleG /\ IdleX /\ IdleK /\ IdleR /\ IdleL /\ IdleH /\ IdleN

\* config.py:161-172  _load_config reads the file and calls
\* _resolve_includes(content, config_dir): visited starts empty
LoadConfig ==
    /\ iout.status = "none"
    /\ istack' = <<Frame("main.yaml", ifiles["main.yaml"])>>
    /\ ivisited' = {}
    /\ iout' = [status |-> "running"]
    /\ UNCHANGED <<ifiles, notI>>

Top == istack[Len(istack)]
Running == iout.status = "running" /\ istack # <<>>
WithTop(frame) == [istack EXCEPT ![Len(istack)] = frame]

\* config.py:83-84  a line without !include is kept
KeepLine ==
    /\ Running
    /\ Top.lines # <<>>
    /\ Head(Top.lines).include = None
    /\ istack' = WithTop([Top EXCEPT !.lines = Tail(@),
                                     !.processed = Append(@, Top.path)])
    /\ UNCHANGED <<ifiles, ivisited, iout, notI>>

\* config.py:45-46  the included path is in visited: ValueError, which
\* _load_config raises again with the message in it (lines 173-174)
CircularInclude ==
    /\ Running
    /\ Top.lines # <<>>
    /\ Head(Top.lines).include # None
    /\ Head(Top.lines).include \in ivisited
    /\ iout' = [status |-> "raised", err |-> "ValueError",
                path |-> Head(Top.lines).include]
    /\ UNCHANGED <<ifiles, istack, ivisited, notI>>

\* config.py:48-56  the path is added to visited, then open() fails
MissingInclude ==
    /\ Running
    /\ Top.lines # <<>>
    /\ Head(Top.lines).include # None
    /\ Head(Top.lines).include \notin ivisited
    /\ Head(Top.lines).include \notin DOMAIN ifiles
    /\ ivisited' = ivisited \cup {Head(Top.lines).include}
    /\ iout' = [status |-> "raised", err |-> "FileNotFoundError",
                path |-> Head(Top.lines).include]
    /\ UNCHANGED <<ifiles, istack, notI>>

\* config.py:48-65  the path is added to visited, the file is read and
\* _resolve_includes is called on its content
EnterInclude ==
    /\ Running
    /\ Top.lines # <<>>
    /\ Head(Top.lines).include # None
    /\ Head(Top.lines).include \notin ivisited
    /\ Head(Top.lines).include \in DOMAIN ifiles
    /\ ivisited' = ivisited \cup {Head(Top.lines).include}
    /\ istack' = Append(istack, Frame(Head(Top.lines).include,
                                      ifiles[Head(Top.lines).include]))
    /\ UNCHANGED <<ifiles, iout, notI>>

\* config.py:65-82,86  the inner call returns: its lines are inlined into
\* processed_lines of the caller, which removes the path from visited
ReturnInclude ==
    /\ Running
    /\ Top.lines = <<>>
    /\ Len(istack) > 1
    /\ istack' = [k \in 1..(Len(istack) - 1) |->
                     IF k < Len(istack) - 1 THEN istack[k]
                     ELSE [istack[k] EXCEPT !.lines = Tail(@),
                                            !.processed = @ \o Top.processed]]
    /\ ivisited' = Unvisit(ivisited, Top.path)
    /\ UNCHANGED <<ifiles, iout, notI>>

\* config.py:86,172  the outermost call returns the resolved content
ReturnResolved ==
    /\ Running
    /\ Top.lines = <<>>
    /\ Len(istack) = 1
    /\ istack' = <<>>
    /\ iout' = [status |-> "resolved", content |-> Top.processed]
    /\ UNCHANGED <<ifiles, ivisited, notI>>

NextI ==
    \/ LoadConfig
    \/ KeepLine
    \/ CircularInclude
    \/ MissingInclude
    \/ EnterInclude
    \/ ReturnInclude
    \/ ReturnResolved

SpecI == InitI /\ [][NextI]_vars

\* the interpreter runs the call to its end
SpecIFair == SpecI /\ WF_vars(NextI)

\* ------------------------------------------------------------------------
\* Histogram filling, sequential and in parallel (analysis/fill_histograms.py)
\* ------------------------------------------------------------------------
\* fill_histograms.py:219  min(maxevents if maxevents > 0 else len(events),
\* len(events)) - 1
LastEvent(maxevents, n) == Min2(IF maxevents > 0 THEN maxevents ELSE n, n) - 1

\* fill_histograms.py:238  min(ncores, cpu_count()) if ncores > 1 else None (0)
NCores(ncores, cpus) == IF ncores > 1 THEN Min2(ncores, cpus) ELSE 0

\* fill_histograms.py:263-268  the chunk of worker i
ChunkOf(i, chunk_size, last_event) ==
    [start |-> i * chunk_size, end |-> Min2((i + 1) * chunk_size, last_event + 1),
     done |-> FALSE, filled |-> {}]

\* events[start:end]: the record indices the slice yields
Sliced(start, end, n) ==
    LET r == SliceRange(Slice(IntV(start), IntV(end), NoneV), n)
    IN  {r[k] : k \in 1..Len(r)}

InitH ==
    /\ hargs \in [n : 0..MaxEvents, maxevents : 0..(MaxEvents + 1),
                  ncores : 1..MaxCores, cpus : {1, 2, MaxCores + 1}]
    /\ hjobs = <<>>
    /\ hrun = [phase |-> "none", filled |-> {}]
    /\ IdleEL /\ IdleP /\ IdleA /\ IdleB /\ IdleF /\ IdleM /\ IdleT /\ IdleS /\ IdleC /\ IdleD /\ IdleG /\ IdleX /\ IdleK /\ IdleR /\ IdleL /\ IdleI /\ IdleN

\* fill_histograms.py:248-258  the sequential loop: records 0 .. _maxevents
FillSequential ==
    /\ hrun.phase = "none"
    /\ NCores(hargs.ncores, hargs.cpus) = 0
    /\ hrun' = [phase |-> "done",
                filled |-> {i \in 0..(hargs.n - 1) :
                               i <= LastEvent(hargs.maxevents, hargs.n)}]
    /\ UNCHANGED <<hargs, hjobs, notH>>

\* fill_histograms.py:260-275  one chunk per worker is handed to the pool
FillParallel ==
    /\ hrun.phase = "none"
    /\ NCores(hargs.ncores, hargs.cpus) # 0
    /\ \E cores \in {NCores(hargs.ncores, hargs.cpus)},
          last_event \in {LastEvent(hargs.maxevents, hargs.n)} :
           hjobs' = [w \in 1..cores |-> ChunkOf(w - 1, (last_event + 1) \div cores, last_event)]
    /\ hrun' = [phase |-> "pool", filled |-> {}]
    /\ UNCHANGED <<hargs, notH>>

\* fill_histograms.py:131-165  process_event_chunk in worker w: every event
\* of events[start_idx:end_idx]
ProcessChunk(w) ==
    /\ hrun.phase = "pool"
    /\ w \in 1..Len(hjobs)
    /\ ~hjobs[w].done
    /\ hjobs' = [hjobs EXCEPT ![w].done = TRUE,
                              ![w].filled = Sliced(hjobs[w].start, hjobs[w].end, hargs.n)]
    /\ UNCHANGED <<hargs, hrun, notH>>

\* fill_histograms.py:278  [r.get() for r in results]
Gather ==
    /\ hrun.phase = "pool"
    /\ \A w \in 1..Len(hjobs) : hjobs[w].done
    /\ hrun' = [phase |-> "done", filled |-> UNION {hjobs[w].filled : w \in 1..Len(hjobs)}]
    /\ UNCHANGED <<hargs, hjobs, notH>>

NextH ==
    \/ FillSequential
    \/ FillParallel
    \/ \E w \in 1..MaxCores : ProcessChunk(w)
    \/ Gather

SpecH == InitH /\ [][NextH]_vars

\* ------------------------------------------------------------------------
\* analyze_genmuon_matches (utils/genmuon_functions.py)
\* ------------------------------------------------------------------------
TPsV(l) == [t |-> "tps", v |-> l]

\* match_offline_AMtp(seg, tp, max_dPhi): the segment takes the trigger
\* primitive into its matches when it is in the same chamber, close in phi and
\* at BX 0
match_offline_AMtp(H, seg, tps, t, max_dPhi) ==
    [H EXCEPT ![seg] =
        SetKey(H[seg], "matches",
               TPsV(match_offline_to_AM(H[seg], H[seg]["matches"].v, tps, t, max_dPhi)))]

\* a second loop that takes every segment of the event
SegmentsToRematch_All(H, gm) == SegmentList

\* genmuon_functions.py:64  getattr(gm, 'matched_segments', [])
SegmentsToRematch(H, gm) == MatchedList(H, gm, "matched_segments")

\* the loop position after the segments of generator muon g (1-based) are
\* done: its trigger-primitive loops, or the next generator muon, or the end
RECURSIVE AfterSegments(_, _, _)
AfterSegments(H, g, tps) ==
    IF g > Cardinality(GenMuonRefs) THEN [phase |-> "done"]
    ELSE IF SegmentsToRematch(H, Ref("genmuon", g)) # <<>> /\ tps # <<>>
    THEN [phase |-> "tps", gm |-> g, todo |-> SegmentsToRematch(H, Ref("genmuon", g)),
          tp |-> 1]
    ELSE IF g < Cardinality(GenMuonRefs) THEN [phase |-> "segments", gm |-> g + 1, seg |-> 1]
    ELSE [phase |-> "done"]

\* segments with their chamber: phi, eta, nHits_phi, nHits_z, st, wh, sc;
\* the last kind has no nHits_z
ChamberSegments ==
    {Attrs(<<"phi", "eta", "nHits_phi", "nHits_z", "st", "wh", "sc">>, v) :
        v \in {<<60, 120, 5, 5, 2, 1, 1>>, <<60, 450, 5, 5, 2, 1, 1>>}}
    \cup {Attrs(<<"phi", "eta", "nHits_phi", "st", "wh", "sc">>, <<60, 120, 5, 2, 1, 1>>)}
\* raw trigger primitives: wh, sc, st, phi, BX
ChamberTPs ==
    {Attrs(<<"wh", "sc", "st", "phi", "BX">>, v) :
        v \in {<<1, 1, 2, 7860, 20>>, <<1, 1, 2, 7900, 20>>, <<0, 1, 2, 7860, 20>>}}

InitN ==
    /\ \E gms \in [1..2 -> GenMuonKinds], segs \in [1..MaxSegments -> ChamberSegments] :
           nheap = [r \in GenMuonRefs \cup SegmentRefs |->
                       IF r.kind = "genmuon" THEN NewHeap(gms, segs)[r]
                       ELSE SetKey(NewHeap(gms, segs)[r], "matches", TPsV(<<>>))]
    /\ \E n \in 0..MaxTPs, raw \in [1..MaxTPs -> ChamberTPs] :
           /\ \A i, j \in 1..n : raw[i] = raw[j] => i = j
           /\ \A i \in (n + 1)..MaxTPs : raw[i] = raw[1]
           /\ ntps \in {[has |-> TRUE, list |-> [i \in 1..n |-> Ph2TP(i - 1, raw[i])]]}
                       \cup (IF n = 0 THEN {[has |-> FALSE, list |-> <<>>]} ELSE {})
    /\ npc = [phase |-> "none"]
    /\ nlog = <<>>
    /\ IdleEL /\ IdleP /\ IdleA /\ IdleB /\ IdleF /\ IdleM /\ IdleT /\ IdleS /\ IdleC /\ IdleD /\ IdleG /\ IdleX /\ IdleK /\ IdleR /\ IdleL /\ IdleI /\ IdleH

\* genmuon_functions.py:45-56  the checks that the event has its collections
StartAnalysis ==
    /\ npc.phase = "none"
    /\ npc' = IF ~ntps.has THEN [phase |-> "raised", err |-> "ValueError"]
              ELSE [phase |-> "segments", gm |-> 1, seg |-> 1]
    /\ UNCHANGED <<nheap, ntps, nlog, notN>>

\* genmuon_functions.py:60-62  match_genmuon_offline_segment(gm, seg, 0.1, 0.3)
\* for the next segment of ev.segments
MatchNextSegment ==
    /\ npc.phase = "segments"
    /\ \E r \in {match_genmuon_offline_segment(nheap, Ref("genmuon", npc.gm),
                                               SegmentList[npc.seg], MaxDPhi, MaxDEta)} :
           /\ nheap' = r.heap
           /\ npc' = IF ~r.ok THEN [phase |-> "raised", err |-> r.err]
                     ELSE IF npc.seg < Len(SegmentList)
                     THEN [npc EXCEPT !.seg = npc.seg + 1]
                     ELSE AfterSegments(r.heap, npc.gm, ntps.list)
    /\ nlog' = Append(nlog, [kind |-> "segment", gm |-> npc.gm,
                             seg |-> SegmentList[npc.seg], tp |-> 0])
    /\ UNCHANGED <<ntps, notN>>

\* genmuon_functions.py:64-66  match_offline_AMtp(_seg, tp, max_dPhi=0.1) for
\* the next trigger primitive of the next matched segment
MatchNextTP ==
    /\ npc.phase = "tps"
    /\ nheap' = match_offline_AMtp(nheap, Head(npc.todo), ntps.list, npc.tp, MaxDPhi)
    /\ npc' = IF npc.tp < Len(ntps.list) THEN [npc EXCEPT !.tp = npc.tp + 1]
              ELSE IF Tail(npc.todo) # <<>>
              THEN [npc EXCEPT !.todo = Tail(npc.todo), !.tp = 1]
              ELSE IF npc.gm < Cardinality(GenMuonRefs)
              THEN [phase |-> "segments", gm |-> npc.gm + 1, seg |-> 1]
              ELSE [phase |-> "done"]
    /\ nlog' = Append(nlog, [kind |-> "tp", gm |-> npc.gm, seg |-> Head(npc.todo),
                             tp |-> npc.tp])
    /\ UNCHANGED <<ntps, notN>>

NextN ==
    \/ StartAnalysis
    \/ MatchNextSegment
    \/ MatchNextTP

SpecN == InitN /\ [][NextN]_vars

\* ========================================================================
\* Properties of the EventList machine (SpecEL)
\* ========================================================================
Full == FullIteration(tree, ELConfig, pipeline, 0)
IsAccess == last.op \in {"get", "slice_next", "iter_next", "get_by_number"}

\* C1 (as stated): after any sequence of accesses, events[i] for i in [0, n)
\* and events[-1] return the i-th (resp. last) value of a full iteration.
C1_IndexMapsToRecord ==
    (last.op = "get" /\ Len(tree) > 0
        /\ (last.arg \in 0..(Len(tree) - 1) \/ last.arg = 0 - 1))
    => LET i == IF last.arg = 0 - 1 THEN Len(tree) - 1 ELSE last.arg
       IN  /\ last.res = Ok(Full[i + 1])
           /\ (it.status # "none" /\ Len(it.out) > i) => last.res = Ok(it.out[i + 1])

\* C2: every preprocessor runs, in list order, before any selector is
\* evaluated; the slot is None iff a selector returned a falsy value, and
\* otherwise it is the Event after all preprocessors.
C2_Preprocessed(e) ==
    LET f[k \in 0..Len(pipeline.pre)] ==
            IF k = 0 THEN e ELSE RunPreprocessor(pipeline.pre[k], f[k - 1])
    IN  f[Len(pipeline.pre)]
C2_PreprocessThenSelect ==
    (IsAccess /\ last.res.ok)
    => LET np == Len(pipeline.pre)
           log == last.log
           rec == IF last.op = "get_by_number" THEN last.arg - 10
                  ELSE IF last.arg < 0 THEN last.arg + Len(tree) + 1 ELSE last.arg + 1
           built == EventInit(tree[rec], rec - 1, TRUE, ELConfig).val
       IN  /\ Len(log) >= np
           /\ \A k \in 1..np : log[k] = PreCall(pipeline.pre[k])
           /\ \A k \in (np + 1)..Len(log) :
                  /\ log[k].kind = "sel"
                  /\ log[k].name = pipeline.sel[k - np]
                  /\ log[k].ret = RunSelector(log[k].name, C2_Preprocessed(built))
                  /\ k < Len(log) => log[k].ret
           /\ (Len(log) - np < Len(pipeline.sel)) => ~log[Len(log)].ret
           /\ (last.res.val = NoneV) <=> (\E k \in 1..Len(log) : ~log[k].ret)
           /\ (last.res.val # NoneV) => last.res.val = EventV(C2_Preprocessed(built))
C2_Witness ==
    /\ last.op = "get" /\ last.res = Ok(NoneV)
    /\ Len(last.log) = 4 /\ last.log[3].ret /\ ~last.log[4].ret

\* C3: events[a:b:c] yields, one element per request and in order, the values
\* of a full iteration at the positions the slice selects; nothing is built
\* before it is requested; a consumed slice yields nothing more and a
\* reissued slice yields the same sequence.
C3_Positions(sl, n) ==
    LET step == IF sl.step.t = "none" THEN 1 ELSE sl.step.v
        Min(a, b) == IF a < b THEN a ELSE b
        Max(a, b) == IF a > b THEN a ELSE b
        Norm(x, lo, hi, dflt) ==
            IF x.t = "none" THEN dflt
            ELSE Max(lo, Min(hi, IF x.v < 0 THEN x.v + n ELSE x.v))
    IN  IF step > 0
        THEN LET s == Norm(sl.start, 0, n, 0)
                 e == Norm(sl.stop, 0, n, n)
             IN  [up |-> TRUE, set |-> {i \in 0..(n - 1) : s <= i /\ i < e /\ (i - s) % step = 0}]
        ELSE LET s == Norm(sl.start, 0 - 1, n - 1, n - 1)
                 e == Norm(sl.stop, 0 - 1, n - 1, 0 - 1)
             IN  [up |-> FALSE,
                  set |-> {i \in 0..(n - 1) : e < i /\ i <= s /\ (s - i) % (0 - step) = 0}]
\* the k-th position of the manual slice list(events)[a:b:c]
C3_Pick(pos, k) ==
    CHOOSE i \in pos.set :
        Cardinality({j \in pos.set : IF pos.up THEN j < i ELSE j > i}) = k - 1
C3_SliceIsLazyView ==
    gen.status # "none"
    => LET pos == C3_Positions(gen.sl, Len(tree))
       IN  /\ Len(gen.out) <= Cardinality(pos.set)
           /\ \A k \in 1..Len(gen.out) : gen.out[k] = Full[C3_Pick(pos, k) + 1]
           /\ gen.built = Len(gen.out)
           /\ Len(gen.out) + Len(gen.todo) = Cardinality(pos.set)
           /\ (gen.status = "done") => (gen.todo = <<>> /\ Len(gen.out) = Cardinality(pos.set))
           /\ (gen.sl.step.t = "none" /\ gen.sl.start.t = "none" /\ gen.sl.stop = IntV(2)
                  /\ gen.status = "done") => gen.out = SubSeq(Full, 1, IF Len(Full) < 2 THEN Len(Full) ELSE 2)
C3_Witness ==
    /\ gen.status = "done" /\ Len(gen.out) >= 2 /\ gen.out[1] # gen.out[2]
    /\ gen.sl.step = IntV(0 - 1)
    /\ it.status = "open" /\ it.pos = 1
    /\ last.op = "slice_next" /\ ~last.res.ok

\* C4 (as stated): events[i] with i in [-n, -1] is the value of record n + i;
\* i >= n or i < -n raises IndexError; an in-range i never raises IndexError.
C4_IndexRange ==
    last.op = "get"
    => LET n == Len(tree)
           i == last.arg
       IN  /\ (0 - n <= i /\ i < 0)
                 => last.res = BuildAndProcess(ELConfig, pipeline, tree[n + i + 1], n + i).res
           /\ (i >= n \/ i < 0 - n) => (~last.res.ok /\ last.res.err = "IndexError")
           /\ (0 - n <= i /\ i < n) => last.res.ok

\* ========================================================================
\* Properties of particles (SpecP)
\* ========================================================================
\* the attributes other than index and name are identical
C5_SameContent(a, b) ==
    \A k \in ((DOMAIN a) \cup (DOMAIN b)) \ {"index", "name"} :
        k \in DOMAIN a /\ k \in DOMAIN b /\ a[k] = b[k]

\* C5 (as stated): particles whose attributes other than index and name are
\* identical are equal and have equal hashes, whatever their index and name;
\* changing one non-identity attribute of one of them makes them unequal.
C5_EqualityAndHash ==
    /\ C5_SameContent(p1, p2)
          => /\ ParticleEq(p1, p2)
             /\ ParticleHash(p1).ok /\ ParticleHash(p2).ok
             /\ ParticleHash(p1) = ParticleHash(p2)
    /\ (pres.op = "set" /\ pres.key \notin {"index", "name"}
            /\ pres.eqBefore /\ pres.changed) => ~ParticleEq(p1, p2)

\* ========================================================================
\* Properties of attribute building (SpecA)
\* ========================================================================
\* how many of branch, expr, src the spec names
C7_Named(info) ==
    (IF info.branch = None THEN 0 ELSE 1) + (IF info.expr = None THEN 0 ELSE 1)
        + (IF info.src = None THEN 0 ELSE 1)

\* what the spec names resolves for particle p, and its type (if any) applies
C7_Resolves(info, p) ==
    /\ info.type \in {None, ""} \cup TypeNames
    /\ \/ /\ Truthy(info.branch)
          /\ info.branch \in DOMAIN ARecord
          /\ \/ ARecord[info.branch].t = "int"
             \/ p["index"].v < Len(ARecord[info.branch].v)
       \/ /\ Truthy(info.expr)
          /\ ExprSyntaxOk(info.expr)
          /\ ExprRef(info.expr) \in DOMAIN p
          /\ p[ExprRef(info.expr)].t = "int"
       \/ /\ Truthy(info.src)
          /\ info.src \in Callables

C21_FromBranch ==
    /\ ares.op = "init"
    /\ Truthy(ares.info.branch) /\ ares.info.expr = None /\ ares.info.src = None
    /\ ~Truthy(ares.info.type)
C21_Index == ares.before["index"].v

\* C21: a branch attribute of the particle at index i is the column's value
\* itself when the column is scalar, the column's i-th element when it is a
\* vector, and the whole inner sequence at position i, as a list, when it is
\* a vector of vectors; a column missing from the record is an error.
C21_BranchValue ==
    C21_FromBranch
    => IF ares.info.branch \notin DOMAIN ARecord
       THEN ares.res = Raise("ValueError", "branch_not_found") /\ ap = ares.before
       ELSE IF ARecord[ares.info.branch].t = "int"
       THEN ares.res.ok /\ ap["x"] = IntV(ARecord[ares.info.branch].v)
       ELSE IF C21_Index >= Len(ARecord[ares.info.branch].v)
       THEN ~ares.res.ok
       ELSE IF ARecord[ares.info.branch].t = "vector"
       THEN ares.res.ok /\ ap["x"] = IntV(ARecord[ares.info.branch].v[C21_Index + 1])
       ELSE /\ ares.res.ok
            /\ ap["x"].t = "list"
            /\ Len(ap["x"].v) = Len(ARecord[ares.info.branch].v[C21_Index + 1])
            /\ \A k \in 1..Len(ap["x"].v) :
                   ap["x"].v[k] = IntV(ARecord[ares.info.branch].v[C21_Index + 1][k])
\* the particle at index 0 takes the inner sequence <<1, 2>> of digi_time
C21_Witness ==
    /\ C21_FromBranch /\ ares.info.branch = "digi_time" /\ C21_Index = 0
    /\ ares.res.ok /\ ap["x"] = ListV(<<IntV(1), IntV(2)>>)

\* the last step set attribute x from a branch, with a known type
C22_Typed ==
    /\ ares.op = "init" /\ ares.res.ok
    /\ Truthy(ares.info.branch) /\ ares.info.type \in TypeNames
\* the value the branch gives before coercion
C22_Raw == BranchValue(ares.before, ares.info, ARecord).val
C22_Coerced ==
    C22_Typed
    => IF C22_Raw.t # "list"
       THEN ap["x"] = IntV(Coerce(ares.info.type, C22_Raw.v))
       ELSE /\ ap["x"].t = "list"
            /\ Len(ap["x"].v) = Len(C22_Raw.v)
            /\ \A k \in 1..Len(C22_Raw.v) :
                   ap["x"].v[k] = IntV(Coerce(ares.info.type, C22_Raw.v[k].v))
C22_RereadSame == (ares.op = "read" /\ ares.again) => ares.val = ares.first

\* C22: with `type`, a scalar value is stored coerced to that type and a list
\* value is stored as a list of the same length with every element coerced;
\* the stored list reads the same any number of times.
C22_TypeCoercion == C22_Coerced /\ C22_RereadSame
\* a scalar value is stored coerced
C22_ScalarCoerced ==
    (C22_Typed /\ C22_Raw.t # "list") => ap["x"] = IntV(Coerce(ares.info.type, C22_Raw.v))

\* ========================================================================
\* Properties of Event construction (SpecB)
\* ========================================================================
C6_FromConfig == bout.op = "event" /\ bout.use_config /\ bcfg.has_particle_types
C6_TypeNames == {bcfg.particle_types[k].ptype : k \in 1..Len(bcfg.particle_types)}
C6_SomeTypeFails ==
    \E k \in 1..Len(bcfg.particle_types) :
        ~BuildParticles(brec, bcfg.particle_types[k].ptype,
                        bcfg.particle_types[k].pinfo).ok

\* C6: construction from configuration is all-or-nothing: an Event the
\* caller holds has every configured type as a list of particles, and when
\* building any configured type fails the constructor raises and the caller
\* holds no Event.
C6_AllOrNothing ==
    C6_FromConfig
    => /\ bout.raised <=> C6_SomeTypeFails
       /\ bout.raised => bout.held = <<>>
       /\ ~bout.raised
             => /\ Len(bout.held) = 1
                /\ DOMAIN bout.held[1].particles = C6_TypeNames
                /\ \A t \in C6_TypeNames :
                       \A k \in 1..Len(bout.held[1].particles[t]) :
                           {"index", "name"} \subseteq DOMAIN bout.held[1].particles[t][k]
C6_Witness ==
    /\ C6_FromConfig /\ bout.raised /\ bout.held = <<>>
    /\ Len(bcfg.particle_types) = 2
    /\ DOMAIN bout.partial[1].particles = {"digis"}
    /\ Len(bout.partial[1].particles["digis"]) > 0

\* the builder has a configuration error: an attribute spec naming no or
\* two or more sources, or a malformed attribute, filter or sorter expression
C8_Misconfigured(pinfo) ==
    \/ \E k \in 1..Len(pinfo.attributes) :
          /\ pinfo.attributes[k].isdict
          /\ \/ Provided(pinfo.attributes[k].info) # 1
             \/ /\ Truthy(pinfo.attributes[k].info.expr)
                /\ ~ExprSyntaxOk(pinfo.attributes[k].info.expr)
    \/ pinfo.filter # None /\ ~ExprSyntaxOk(pinfo.filter)
    \/ pinfo.sorter.t = "sorter" /\ pinfo.sorter.by # None
          /\ ~ExprSyntaxOk(pinfo.sorter.by)

\* C8: a configuration error is raised whatever the record holds, also for
\* a record that yields zero particles of the misconfigured type.
C8_RaisedForAnyRecord ==
    (C6_FromConfig
       /\ \E k \in 1..Len(bcfg.particle_types) :
              C8_Misconfigured(bcfg.particle_types[k].pinfo))
    => bout.raised

\* ========================================================================
\* Properties of Event.filter_particles (SpecF)
\* ========================================================================
C9_Known == fout.op = "filter" /\ fout.ptype \in DOMAIN fev.particles
C9_Members == fev.particles[fout.ptype]
C9_Carries(p) ==
    \A k \in 1..Len(fout.kwargs) :
        /\ fout.kwargs[k].key \in DOMAIN p
        /\ ValEq(p[fout.kwargs[k].key], fout.kwargs[k].value)

\* C9: for a known, non-empty type and constraint keys that each exist on
\* at least one particle of the type, filter_particles does not raise and
\* returns, in collection order, exactly the particles that carry every
\* named attribute with the given value.
C9_ReturnsMatching ==
    (C9_Known /\ C9_Members # <<>>
       /\ \A k \in 1..Len(fout.kwargs) : fout.kwargs[k].key \in ValidKeys(C9_Members))
    => /\ fout.res.ok
       /\ fout.res.val = SelectSeq(C9_Members, C9_Carries)

\* C10: an unknown type name gives a warning and an empty list; a known type
\* with zero members gives an empty list without a warning, whatever the
\* constraints; a known type with members and a constraint key none of them
\* has raises a ValueError that names the valid keys.
C10_UnknownTypeEmptyTypeUnknownKey ==
    fout.op = "filter"
    => /\ ~C9_Known => (fout.warned /\ fout.res = Ok(<<>>))
       /\ (C9_Known /\ C9_Members = <<>>) => (~fout.warned /\ fout.res = Ok(<<>>))
       /\ (C9_Known /\ C9_Members # <<>>
             /\ \E k \in 1..Len(fout.kwargs) :
                    fout.kwargs[k].key \notin ValidKeys(C9_Members))
          => /\ ~fout.res.ok /\ fout.res.err = "ValueError"
             /\ fout.res.keys = ValidKeys(C9_Members)
             /\ ~fout.warned
C10_Witness ==
    /\ C9_Known /\ C9_Members = <<>>
    /\ Len(fout.kwargs) = 2
    /\ fout.res = Ok(<<>>) /\ ~fout.warned
    /\ "segments" \in DOMAIN fev.particles /\ fev.particles["segments"] # <<>>

\* some constraint of the call is on an identity field
C11_OnIdentity ==
    \E k \in 1..Len(fout.kwargs) : fout.kwargs[k].key \in {"index", "name"}
C11_Returned(p) == \E k \in 1..Len(fout.res.val) : fout.res.val[k] = p

\* C11: index and name never take part in filtering: a constraint on index
\* or name is refused, and two particles of the collection with equal
\* non-identity attributes are both returned or both excluded.
C11_IdentityNotFiltered ==
    (C9_Known /\ C9_Members # <<>>)
    => /\ C11_OnIdentity => ~fout.res.ok
       /\ fout.res.ok
             => \A i, j \in 1..Len(C9_Members) :
                    ParticleEq(C9_Members[i], C9_Members[j])
                    => (C11_Returned(C9_Members[i]) <=> C11_Returned(C9_Members[j]))

\* ========================================================================
\* Properties of generator muon - segment matching (SpecM)
\* ========================================================================
\* the matched list of a particle: empty when the attribute is not set
C12_List(r, name) == IF name \in DOMAIN mheap[r] THEN mheap[r][name].v ELSE <<>>
C12_In(l, r) == \E k \in 1..Len(l) : l[k] = r

\* C12: after any number of matching passes, seg is in gm.matched_segments
\* exactly when gm is in seg.matched_genmuons, and no matched list holds the
\* same particle twice.
C12_SymmetricNoDuplicates ==
    /\ \A g \in GenMuonRefs, s \in SegmentRefs :
           C12_In(C12_List(g, "matched_segments"), s)
           <=> C12_In(C12_List(s, "matched_genmuons"), g)
    /\ \A r \in GenMuonRefs \cup SegmentRefs, name \in {"matched_segments", "matched_genmuons"} :
           \A i, j \in 1..Len(C12_List(r, name)) :
               C12_List(r, name)[i] = C12_List(r, name)[j] => i = j

\* C13: after a pass of gm over the segments, seg is in gm.matched_segments
\* exactly when the wrapped azimuth difference is below max_dPhi, the eta
\* difference is below max_dEta, seg has at least 4 phi hits and seg has at
\* least 4 z hits or is in station 4.
C13_MatchCriterion ==
    (mout.op = "match" /\ ~mout.raised)
    => \A s \in SegmentRefs :
           C12_In(C12_List(mout.gm, "matched_segments"), s)
           <=> /\ WrapPhi(mheap[mout.gm]["phi"].v - mheap[s]["phi"].v) < 100
               /\ mheap[mout.gm]["eta"].v - mheap[s]["eta"].v < 300
               /\ mheap[s]["eta"].v - mheap[mout.gm]["eta"].v < 300
               /\ mheap[s]["nHits_phi"].v >= 4
               /\ (mheap[s]["nHits_z"].v >= 4 \/ mheap[s]["st"].v = 4)
\* gm (phi 0.05, eta 0.10): the segment with 5 and 5 hits in station 2 is
\* matched, the same segment with 2 z hits is not
C13_Witness ==
    /\ mout.op = "match" /\ ~mout.raised
    /\ mheap[mout.gm]["phi"].v = 50 /\ mheap[mout.gm]["eta"].v = 100
    /\ \E s, u \in SegmentRefs :
           /\ mheap[s]["phi"].v = 60 /\ mheap[s]["eta"].v = 120
           /\ mheap[s]["nHits_phi"].v = 5 /\ mheap[s]["nHits_z"].v = 5
           /\ mheap[s]["st"].v = 2
           /\ C12_In(C12_List(mout.gm, "matched_segments"), s)
           /\ mheap[u]["phi"].v = 60 /\ mheap[u]["eta"].v = 120
           /\ mheap[u]["nHits_phi"].v = 5 /\ mheap[u]["nHits_z"].v = 2
           /\ mheap[u]["st"].v = 2
           /\ ~C12_In(C12_List(mout.gm, "matched_segments"), u)

\* ========================================================================
\* Properties of segment - trigger primitive matching (SpecT)
\* ========================================================================
C14_Recorded(t) == \E k \in 1..Len(tseg.matches) : tseg.matches[k] = t

\* C14: a trigger primitive handed to the segment is recorded as a match
\* exactly when it is in the same wheel and station, its sector is the
\* segment's (13 read as 4, 14 as 10), the wrapped difference between
\* seg.phi and tp.phi / phires_conv + pi/6 * (tp.sc - 1) is below max_dPhi
\* and its BX (raw bucket minus 20) is 0; it is recorded at most once.
C14_RecordedIffCriterion ==
    /\ \A t \in tout.seen :
           C14_Recorded(t)
           <=> /\ ttps[t]["wh"].v = tseg.attrs["wh"].v
               /\ ttps[t]["st"].v = tseg.attrs["st"].v
               /\ ttps[t]["sc"].v = (IF tseg.attrs["sc"].v = 13 THEN 4
                                     ELSE IF tseg.attrs["sc"].v = 14 THEN 10
                                     ELSE tseg.attrs["sc"].v)
               /\ WrapPhi(tseg.attrs["phi"].v - TrigGlbPhi(ttps[t])) < 100
               /\ ttps[t]["BX"].v = 0
    /\ \A i, j \in 1..Len(tseg.matches) : tseg.matches[i] = tseg.matches[j] => i = j

\* the same, for events whose trigger primitives differ pairwise in content
C14_Distinct ==
    (\A t, u \in 1..Len(ttps) : t # u => ~TPEq(ttps[t], ttps[u]))
    => C14_RecordedIffCriterion

\* ========================================================================
\* Properties of the shower flags (SpecS)
\* ========================================================================
C15_Flagged(gm) == "showered" \in DOMAIN gm /\ gm["showered"].v
C15_Analyzed(method) == sout.op = "analyze" /\ sout.method = method /\ ~sout.raised
\* two of the matched segments of gm are in the same (wh, sc, st)
C15_SharedLocation(gm) ==
    \E j, k \in 1..Len(MatchedSegments(gm)) :
        /\ j # k
        /\ \A a \in {"wh", "sc", "st"} :
               MatchedSegments(gm)[j][a] = MatchedSegments(gm)[k][a]

C16_SimHits == IF "simhits" \in DOMAIN sev.particles THEN sev.particles["simhits"] ELSE <<>>
\* the number of electron or positron simhits at the location of segment seg
C16_ElectronsAt(seg) ==
    Cardinality({k \in 1..Len(C16_SimHits) :
                    /\ \A a \in {"wh", "sc", "st"} : C16_SimHits[k][a] = seg[a]
                    /\ C16_SimHits[k]["particle_type"].v \in {11, 0 - 11}})

C17_Filled == cout.op = "fill" /\ cout.locs.ok /\ cout.tpfptnfn.ok
\* the locations of the last fill, in the order they were iterated
C17_Locs == Ordered(cout.locs.val, corder)
\* some particle of the type lies at the location
C17_At(ptype, loc) ==
    /\ ptype \in DOMAIN cev.particles
    /\ \E k \in 1..Len(cev.particles[ptype]) :
           \A i \in 1..Len(loc) : cev.particles[ptype][k][WhScStSl[i]].v = loc[i]
C17_Class(loc) ==
    CASE C17_At("fwshowers", loc) /\ C17_At("realshowers", loc) -> 0
      [] C17_At("fwshowers", loc) /\ ~C17_At("realshowers", loc) -> 1
      [] ~C17_At("fwshowers", loc) /\ ~C17_At("realshowers", loc) -> 2
      [] ~C17_At("fwshowers", loc) /\ C17_At("realshowers", loc) -> 3

\* C17: the confusion classification emits exactly one class for every
\* location of the interesting-locations set: 0 found and true, 1 found and
\* not true, 2 neither, 3 true and not found; the numerator flag of the
\* efficiency is true exactly for classes 0 and 2, and the flags are aligned
\* element by element with the denominator locations.
C17_OneClassPerLocation ==
    C17_Filled
    => /\ Len(cout.tpfptnfn.val) = Cardinality(cout.locs.val)
       /\ \A i \in 1..Len(C17_Locs) :
              cout.tpfptnfn.val[i] = <<C17_Locs[i][1], C17_Class(C17_Locs[i])>>
       /\ Len(cout.eff) = Cardinality(cout.locs.val)
       /\ \A i \in 1..Len(C17_Locs) :
              /\ cout.eff[i].den = C17_Locs[i][1]
              /\ cout.eff[i].num <=> C17_Class(C17_Locs[i]) \in {0, 2}
\* a fill whose locations take the classes 0 and 2, iterated in the
\* opposite order
C17_Witness ==
    /\ C17_Filled /\ cout.opt = 1 /\ ~cout.by_sl
    /\ corder = Reversed(LocUniverse)
    /\ cout.tpfptnfn.val = <<<<0, 2>>, <<1, 0>>>>
    /\ cout.eff = <<[den |-> 0, num |-> TRUE], [den |-> 1, num |-> TRUE]>>

\* ========================================================================
\* Properties of to_dict (SpecD)
\* ========================================================================
C18_Scalars ==
    dout.op = "to_dict"
    => \A key \in DOMAIN dev.dict \ DOMAIN dev.particles : dout.d[key] = dev.dict[key]
C18_Lists ==
    dout.op = "to_dict"
    => \A ptype \in DOMAIN dev.particles :
           /\ dout.d[ptype].t = "list"
           /\ Len(dout.d[ptype].v) = Len(dev.particles[ptype])
           /\ \A i \in 1..Len(dout.d[ptype].v) : dout.d[ptype].v[i].t = "map"
\* no attribute of a per-particle mapping is still a list of Particle objects
C18_Flattened ==
    dout.op = "to_dict"
    => \A ptype \in DOMAIN dev.particles :
           \A i \in 1..Len(dout.d[ptype].v) :
               \A attr \in DOMAIN dout.d[ptype].v[i].v :
                   dout.d[ptype].v[i].v[attr].t # "refs"

\* C18: to_dict() returns every scalar field with the value direct access
\* gives, and every particle collection as a list of the same length of
\* per-particle attribute mappings in which reference attributes are
\* themselves flattened into mappings.
C18_ToDictFlattens == C18_Scalars /\ C18_Lists /\ C18_Flattened
\* to_dict keeps the scalar fields and the lengths of the collections
C18_ScalarsAndLengths == C18_Scalars /\ C18_Lists

\* ========================================================================
\* Properties of Event attribute access (SpecG)
\* ========================================================================
\* the value is a Particle or a list of Particles
C19_IsParticles(value) ==
    \/ value.t = "particle"
    \/ value.t = "list" /\ \A k \in 1..Len(value.v) : value.v[k].t = "particle"
\* the collection the value is kept as
C19_Collection(value) ==
    IF value.t = "particle" THEN <<value.v>> ELSE UnwrapSeq(value.v)
C19_Routed ==
    gout.op = "set"
    => IF C19_IsParticles(gout.value)
       THEN /\ gout.name \in DOMAIN gev.particles
            /\ gev.particles[gout.name] = C19_Collection(gout.value)
       ELSE /\ gout.name \in DOMAIN gev.dict
            /\ gev.dict[gout.name] = gout.value
            /\ gev.particles = gout.particles_before
C19_ReadBack ==
    (gout.op = "get" /\ gout.follows /\ C19_IsParticles(gout.value))
    => /\ gout.res.ok
       /\ gout.res.val = ListV(ParticleVSeq(C19_Collection(gout.value)))

\* C19: for any attribute name, assigning a Particle or a list of Particles
\* to event.<name> stores it in the particle-collections map and a following
\* read of event.<name> returns that collection; assigning any other value
\* makes a plain field and leaves the particle-collections map unchanged.
C19_SetThenGet == C19_Routed /\ C19_ReadBack
\* the read returns the collection when the name is not a plain field
C19_ReadBackUnlessField ==
    (gout.op = "get" /\ gout.follows /\ C19_IsParticles(gout.value)
       /\ gout.name \notin DOMAIN gev.dict)
    => /\ gout.res.ok
       /\ gout.res.val = ListV(ParticleVSeq(C19_Collection(gout.value)))

\* ========================================================================
\* Properties of the attribute table in declared order (SpecX)
\* ========================================================================
C20_Table == Table(xtable)
C20_IsExpr(k) == C20_Table[k].isdict /\ C20_Table[k].info.expr # None
\* the attribute the expression of entry k refers to is assigned by an
\* entry before k
C20_RefersEarlier(k) ==
    \E j \in 1..(k - 1) : C20_Table[j].attr = ExprRef(C20_Table[k].info.expr)
\* C20: an expr attribute is evaluated against only the attributes already
\* assigned earlier in declared order: when every expression refers to an
\* earlier attribute the particle is built with the derived values, and an
\* expression that refers to an attribute declared later (or nowhere) fails.
C20_DeclaredOrder ==
    xout.op = "init"
    => /\ xout.res.ok <=> \A k \in 1..Len(C20_Table) :
                              C20_IsExpr(k) => C20_RefersEarlier(k)
       /\ xout.res.ok
          => \A k \in 1..Len(C20_Table) :
                 C20_IsExpr(k)
                 => xout.res.val[C20_Table[k].attr]
                      = IF C20_Table[k].info.type = None
                        THEN ExprApply(C20_Table[k].info.expr,
                                       xout.res.val[ExprRef(C20_Table[k].info.expr)].v)
                        ELSE IntV(Coerce(C20_Table[k].info.type,
                                 ExprApply(C20_Table[k].info.expr,
                                     xout.res.val[ExprRef(C20_Table[k].info.expr)].v).v))
       /\ ~xout.res.ok => xout.res.err = "NameError"
\* wh = 2, then side = wh + 1, then a third attribute: built, side is 3
C20_Witness ==
    /\ xout.op = "init" /\ xout.res.ok
    /\ Len(xtable) = 3
    /\ ~C20_Table[1].isdict /\ C20_Table[1].attr = "wh" /\ C20_Table[1].value = IntV(2)
    /\ C20_IsExpr(2) /\ C20_Table[2].attr = "side" /\ C20_Table[2].info.type = None
    /\ xout.res.val["side"] = IntV(3)

\* ========================================================================
\* Properties of a built particle type (SpecK)
\* ========================================================================
C23_Built == kout.op = "build"
\* the amount entry is there and, when it names a column, the record has it
C23_AmountResolves ==
    /\ kinfo.amount.t # "none"
    /\ kinfo.amount.t = "str" => kinfo.amount.v \in DOMAIN krec
\* the number of particles the amount asks for
C23_Amount ==
    IF kinfo.amount.t = "int" THEN kinfo.amount.v
    ELSE IF krec[kinfo.amount.v].t = "int" THEN krec[kinfo.amount.v].v
    ELSE Len(krec[kinfo.amount.v].v)
\* the filter is absent or truthy for the particle of index i
C23_Passes(i) == kinfo.filter = None \/ krec["wheel"].v[i + 1] > 0
C23_Digis == kout.res.val.particles["digis"]

\* C23: the number of particles constructed for a type before filtering is
\* `amount` when it is a literal integer, the column's value when the named
\* column holds an integer and the column's length when it holds a sequence:
\* the collection holds one particle for each index below that number that
\* passes the filter; a missing amount entry or amount column is a fatal
\* error and no collection of the type is created.
C23_ParticleCount ==
    C23_Built
    => IF C23_AmountResolves
       THEN /\ kout.res.ok
            /\ Len(C23_Digis) = Cardinality({i \in 0..(C23_Amount - 1) : C23_Passes(i)})
            /\ {C23_Digis[k]["index"].v : k \in 1..Len(C23_Digis)}
                 = {i \in 0..(C23_Amount - 1) : C23_Passes(i)}
            /\ kinfo.filter = None => Len(C23_Digis) = C23_Amount
       ELSE /\ ~kout.res.ok /\ kout.res.err = "ValueError"
            /\ "digis" \notin DOMAIN kout.res.partial.particles
\* the amount names the sequence column: MaxBuilt particles, none filtered
C23_Witness ==
    /\ C23_Built /\ kout.res.ok
    /\ kinfo.amount = [t |-> "str", v |-> "wheel"] /\ kinfo.filter = None
    /\ krec["n"].v = MaxBuilt - 1
    /\ Len(C23_Digis) = MaxBuilt

C24_Exposed == C23_Built /\ kout.res.ok
C24_Key(k) == C23_Digis[k]["wh"].v
C24_Index(k) == C23_Digis[k]["index"].v

\* C24: the collection exposed for a particle type is exactly the
\* subsequence of the built particles for which the filter is truthy, sorted
\* once by the sorter key after filtering; particles with equal keys keep
\* their build order, also when reverse is set.
C24_FilteredThenSorted ==
    C24_Exposed
    => /\ \A k, l \in 1..Len(C23_Digis) : C24_Index(k) = C24_Index(l) => k = l
       /\ {C24_Index(k) : k \in 1..Len(C23_Digis)}
            = {i \in 0..(C23_Amount - 1) : C23_Passes(i)}
       /\ \A k \in 1..Len(C23_Digis) :
              C23_Digis[k]["wh"] = IntV(krec["wheel"].v[C24_Index(k) + 1])
       /\ \A k, l \in 1..Len(C23_Digis) :
              k < l
              => IF kinfo.sorter.t = "absent" THEN C24_Index(k) < C24_Index(l)
                 ELSE /\ IF kinfo.sorter.reverse THEN C24_Key(k) >= C24_Key(l)
                         ELSE C24_Key(k) <= C24_Key(l)
                      /\ C24_Key(k) = C24_Key(l) => C24_Index(k) < C24_Index(l)
\* wheels 2, -1, 2 filtered on wh > 0 and sorted in reverse: the particles of
\* index 0 and 2, in build order
C24_Witness ==
    /\ C24_Exposed
    /\ krec["wheel"].v = <<2, 0 - 1, 2>> /\ kinfo.amount = [t |-> "str", v |-> "wheel"]
    /\ kinfo.filter = "p.wh > 0" /\ kinfo.sorter = Sorter("p.wh", TRUE)
    /\ Len(C23_Digis) = 2 /\ C24_Index(1) = 0 /\ C24_Index(2) = 2

\* C25: in every particle collection exposed by a built Event, also for
\* types configured with a filter or a sorter, the particle at list position
\* k has index == k.
C25_PositionIsIndex ==
    C24_Exposed => \A k \in 1..Len(C23_Digis) : C24_Index(k) = k - 1
\* without filter and sorter the position is the index
C25_PositionIsIndexWhenPlain ==
    (C24_Exposed /\ kinfo.filter = None /\ kinfo.sorter.t = "absent")
    => \A k \in 1..Len(C23_Digis) : C24_Index(k) = k - 1

\* ========================================================================
\* Properties of the EventList with raising preprocessors (SpecR)
\* ========================================================================
\* the last call asked for a record that exists
C26_Slot ==
    /\ rout.op \in {"get", "slice_next", "iter_next"}
    /\ ~(~rout.res.ok /\ rout.res.err \in {"IndexError", "StopIteration"})
C26_Pos == IF rout.index < 0 THEN rout.index + Len(rtree) ELSE rout.index
\* the construction of that record's Event on its own
C26_Built == EventInit(rtree[C26_Pos + 1], C26_Pos, TRUE, rcfg)
C26_Required == {"phi", "eta", "st", "nHits_phi", "nHits_z"}
\* the record has a pair to match
C26_HasPairs ==
    /\ C26_Built.ok
    /\ NumOf(C26_Built.val, "genmuons") > 0
    /\ NumOf(C26_Built.val, "segments") > 0
\* a segment is built without a required attribute
C26_Lacking ==
    \E s \in 1..NumOf(C26_Built.val, "segments") :
        ~(C26_Required \subseteq DOMAIN C26_Built.val.particles["segments"][s])
\* the calls made when the pass `l` meets a matching pass while a segment
\* lacks an attribute: all of them, or those up to that pass
RECURSIVE C26_Calls(_, _)
C26_Calls(l, lacking) ==
    IF l = <<>> THEN <<>>
    ELSE IF Head(l) = "matches" /\ lacking THEN <<RaisedCall("matches")>>
    ELSE <<PreCall(Head(l))>> \o C26_Calls(Tail(l), lacking \/ Head(l) = "drop_z")
C26_MustRaise ==
    /\ C26_HasPairs
    /\ C26_Calls(rpipe.pre, C26_Lacking) # <<>>
    /\ ~C26_Calls(rpipe.pre, C26_Lacking)[Len(C26_Calls(rpipe.pre, C26_Lacking))].ret

\* C26: an exception raised while an Event is built or inside a preprocessor
\* leaves events[i], the slice generator and the iteration as it was raised:
\* the slot is never None, no later preprocessor and no selector runs for the
\* record, and the matching call that raised left the matched lists of its
\* pair as they were.
C26_ExceptionsPropagate ==
    C26_Slot
    => /\ ~C26_Built.ok
          => /\ rout.res = Raise(C26_Built.err, C26_Built.what)
             /\ rout.log = <<>>
       /\ C26_MustRaise
          => /\ ~rout.res.ok /\ rout.res.err = "AttributeError"
             /\ rout.log = C26_Calls(rpipe.pre, C26_Lacking)
       /\ (rout.res.ok /\ rout.res.val = NoneV)
          => /\ rout.log # <<>>
             /\ rout.log[Len(rout.log)].kind = "sel"
             /\ ~rout.log[Len(rout.log)].ret
       /\ ~rout.res.ok
          => /\ \A k \in 1..Len(rout.log) : rout.log[k].kind = "pre"
             /\ \A k \in 1..Len(rout.log) : ~rout.log[k].ret => k = Len(rout.log)
       /\ rout.ev # NoneV
          => \A k \in 1..Len(rout.ev.calls) :
                 rout.ev.calls[k].raised
                 => rout.ev.calls[k].before = rout.ev.calls[k].after
       /\ (rout.op = "slice_next" /\ ~rout.res.ok) => rgen.status = "done"
       /\ (rout.op = "iter_next" /\ ~rout.res.ok) => rit.status = "done"

\* inside an iteration the second matching pass of a record raised on a pair
\* that the first pass had matched
C26_Witness ==
    /\ rout.op = "iter_next"
    /\ C26_Slot
    /\ C26_MustRaise
    /\ ~C26_Lacking
    /\ ~rout.res.ok
    /\ Len(rout.log) = 4
    /\ \E k \in 1..Len(rout.ev.calls) :
           /\ rout.ev.calls[k].raised
           /\ rout.ev.calls[k].before[1] # <<>>
           /\ rout.ev.calls[k].before[4] # <<>>

\* ========================================================================
\* Properties of NTuple.load_tree (SpecL)
\* ========================================================================
C27_RootFiles == {lscan[k] : k \in {j \in 1..Len(lscan) : lscan[j].root}}
C27_Chained == {lchain.files[k].file : k \in 1..Len(lchain.files)}
\* the natural order of two files: by directory text, then by number
C27_Before(a, b) == (~a.sub /\ b.sub) \/ (a.sub = b.sub /\ a.num < b.num)
C27_Count ==
    IF lchain.asked = 0 - 1 \/ Cardinality(C27_RootFiles) < lchain.asked
    THEN Cardinality(C27_RootFiles) ELSE lchain.asked

\* C27: the chain holds the .root files of the directory in natural order
\* (file_2 before file_10), all of them when maxfiles is -1 and else the first
\* min(maxfiles, N) of that order, whatever the spelling of the directory path
C27_NaturalOrder ==
    lchain.loaded
    => /\ Len(lchain.files) = C27_Count
       /\ C27_Chained \subseteq C27_RootFiles
       /\ \A i, j \in 1..Len(lchain.files) :
              i < j => C27_Before(lchain.files[i].file, lchain.files[j].file)
       /\ \A f \in C27_RootFiles \ C27_Chained :
              \A k \in 1..Len(lchain.files) : C27_Before(lchain.files[k].file, f)

\* the same for the paths whose spelling does not hold "root"
C27_NaturalOrderOtherPaths ==
    ~HasRootInName(lpath) => C27_NaturalOrder

\* ========================================================================
\* Properties of !include resolution (SpecIFair)
\* ========================================================================
\* the files a file names in its !include lines
C28_Includes(f) ==
    IF f \notin DOMAIN ifiles THEN {}
    ELSE {ifiles[f][k].include : k \in 1..Len(ifiles[f])} \ {None}
\* the files reached from f by one or more includes
C28_Reach1(f) == C28_Includes(f)
C28_Reach2(f) == C28_Reach1(f) \cup UNION {C28_Includes(g) : g \in C28_Reach1(f)}
C28_Reach(f) == C28_Reach2(f) \cup UNION {C28_Includes(g) : g \in C28_Reach2(f)}
C28_OnCycle(f) == f \in C28_Reach(f)
C28_Cyclic == \E f \in C28_Reach("main.yaml") \cup {"main.yaml"} : C28_OnCycle(f)
C28_Missing == \E f \in C28_Reach("main.yaml") : f \notin DOMAIN ifiles

\* the content of f with every include inlined, for files without a cycle
RECURSIVE C28_Inlined(_, _)
C28_Inlined(f, k) ==
    IF k > Len(ifiles[f]) THEN <<>>
    ELSE IF ifiles[f][k].include = None THEN <<f>> \o C28_Inlined(f, k + 1)
    ELSE C28_Inlined(ifiles[f][k].include, 1) \o C28_Inlined(f, k + 1)

C28_Outcome ==
    /\ Len(istack) <= Cardinality(YamlPaths) + 1
    /\ iout.status = "raised"
       => /\ iout.err = "ValueError" => C28_OnCycle(iout.path)
          /\ iout.err = "FileNotFoundError" => iout.path \notin DOMAIN ifiles
    /\ iout.status = "resolved"
       => /\ ~C28_Cyclic /\ ~C28_Missing
          /\ iout.content = C28_Inlined("main.yaml", 1)

\* C28: resolving the includes of a configuration always ends; a circular
\* chain of includes (through the file itself, an including file or the root)
\* ends in a ValueError that names a path of the cycle, and includes without a
\* cycle, repeated or not, are inlined each time they appear.
C28_IncludesTerminate ==
    /\ [](iout.status = "running" => <>(iout.status \in {"raised", "resolved"}))
    /\ []C28_Outcome

\* a file was included twice without a cycle and inlined both times
C28_Witness ==
    /\ iout.status = "resolved"
    /\ ifiles["main.yaml"] = <<IncludeLine("a.yaml"), IncludeLine("a.yaml")>>
    /\ ifiles["a.yaml"] = <<PlainLine, IncludeLine("b.yaml")>>
    /\ iout.content = <<"a.yaml", "b.yaml", "a.yaml", "b.yaml">>

\* a chain that leads back to the root configuration raised
C28_WitnessCycle ==
    /\ iout.status = "raised"
    /\ iout.err = "ValueError"
    /\ ifiles["main.yaml"] = <<PlainLine, IncludeLine("a.yaml")>>
    /\ ifiles["a.yaml"] = <<IncludeLine("main.yaml")>>

\* ========================================================================
\* Properties of histogram filling (SpecH)
\* ========================================================================
\* the records the sequential path fills: the first min(maxevents, N), all of
\* them when maxevents is 0
C29_First ==
    {i \in 0..(hargs.n - 1) : hargs.maxevents = 0 \/ i < hargs.maxevents}
C29_Range(w) == hjobs[w].start..(hjobs[w].end - 1)

\* C29: the index ranges [start, end) of the workers are pairwise disjoint
\* and their union is the first min(maxevents, N) records, the records the
\* sequential path fills
C29_ChunksCover ==
    /\ (hrun.phase = "done" /\ hjobs = <<>>) => hrun.filled = C29_First
    /\ hjobs # <<>>
       => /\ \A v, w \in 1..Len(hjobs) : v # w => C29_Range(v) \cap C29_Range(w) = {}
          /\ UNION {C29_Range(w) : w \in 1..Len(hjobs)} = C29_First
    /\ (hrun.phase = "done" /\ hjobs # <<>>) => hrun.filled = C29_First

\* the ranges are disjoint and lie within the first min(maxevents, N) records
C29_ChunksDisjointWithin ==
    hjobs # <<>>
    => /\ \A v, w \in 1..Len(hjobs) : v # w => C29_Range(v) \cap C29_Range(w) = {}
       /\ UNION {C29_Range(w) : w \in 1..Len(hjobs)} \subseteq C29_First

\* the sequential path fills the first min(maxevents, N) records
C29_SequentialFirst ==
    (hrun.phase = "done" /\ hjobs = <<>>) => hrun.filled = C29_First

\* ========================================================================
\* Properties of analyze_genmuon_matches (SpecN)
\* ========================================================================
\* segment s is matched to a generator muon, on either side
C30_Matched(s) ==
    \/ MatchedList(nheap, s, "matched_genmuons") # <<>>
    \/ \E g \in GenMuonRefs :
           \E k \in 1..Len(MatchedList(nheap, g, "matched_segments")) :
               MatchedList(nheap, g, "matched_segments")[k] = s
\* the segments generator muon g was matched against before call k
C30_SegmentsBefore(g, k) ==
    {nlog[j].seg : j \in {i \in 1..(k - 1) : nlog[i].kind = "segment" /\ nlog[i].gm = g}}

\* C30: for each generator muon the segment matching over all segments of the
\* event is complete before its first trigger-primitive matching, trigger
\* primitives are matched only against the segments in its matched_segments,
\* and a segment matched to no generator muon has no matched trigger primitive
C30_SegmentsBeforeTPs ==
    /\ \A k \in 1..Len(nlog) :
           nlog[k].kind = "tp"
           => /\ C30_SegmentsBefore(nlog[k].gm, k) = SegmentRefs
              /\ \A j \in (k + 1)..Len(nlog) :
                     nlog[j].gm = nlog[k].gm => nlog[j].kind = "tp"
              /\ \E i \in 1..Len(MatchedList(nheap, Ref("genmuon", nlog[k].gm),
                                             "matched_segments")) :
                     MatchedList(nheap, Ref("genmuon", nlog[k].gm),
                                 "matched_segments")[i] = nlog[k].seg
    /\ \A s \in SegmentRefs : ~C30_Matched(s) => nheap[s]["matches"].v = <<>>

\* the pass is over: one segment is matched and has a trigger primitive, the
\* other one is matched to no generator muon
C30_Witness ==
    /\ npc.phase = "done"
    /\ \E s, u \in SegmentRefs :
           /\ C30_Matched(s) /\ nheap[s]["matches"].v # <<>>
           /\ ~C30_Matched(u)
           /\ \E k \in 1..Len(ntps.list) :
                  AMMatches(nheap[u], ntps.list[k], MaxDPhi)
====
